---------------------------- MODULE Spec2Model ----------------------------
(***************************************************************************)
(* A model of obsgit: the reconciliation between an Open Build Service     *)
(* project (the registry) and a git tree, with the OBS-backed file store.  *)
(*                                                                         *)
(* The module holds one group of variables per part of the program and one *)
(* specification per group; a specification leaves the other groups idle.  *)
(*   SpecChanges : Importer.changes_git_entry / prepend_changes            *)
(*   SpecLink    : AsyncOBS.files_md5_revision (link policy)               *)
(*   SpecExport  : Exporter.package with StorageOBS.store_files / commit   *)
(*   SpecImport  : Importer.package, run twice on an unchanged tree        *)
(*   SpecExportLink  : Exporter.package of a linked package                *)
(*   SpecExportFault : Exporter.package with raising awaitables and stops  *)
(*   SpecProject : Exporter.project over several packages                  *)
(*   SpecApp     : the checks of app.export and app.import_                *)
(*   SpecClassify: Exporter.is_binary                                      *)
(*   SpecManifest: the pointer manifest written and read back              *)
(*   SpecLFS     : StorageLFS.store_files                                  *)
(*   SpecHistory : Git.analyze_history / last_revision_to                  *)
(*   SpecImportProject : Importer.project over groups of packages          *)
(***************************************************************************)
EXTENDS Integers, Sequences, FiniteSets, TLC

VARIABLES
    \* --- Importer.prepend_changes -------------------------------------
    chRec,      \* the RevisionRecord Git.last_revision_to returns
    chRaw,      \* the bytes of the changelog file in the tree
    chOut,      \* the bytes prepend_changes returned
    chPc,       \* "input" | "stamped"
    \* --- AsyncOBS.files_md5_revision ----------------------------------
    lnkPolicy,  \* AsyncOBS.link: "never" | "auto" | "always"
    lnkPkg,     \* what the registry answers for the package
    lnkOut,     \* what files_md5_revision returned
    lnkPc,      \* "call" | "returned"
    \* --- Exporter.package with StorageOBS ------------------------------
    expScope,       \* "package" | "project": what app.export was asked for
    expReg,         \* the registry's listing of the package: {<<filename, md5>>}
    expTree,        \* the plain files of the package in the tree: {<<filename, md5>>}
    expVerdict,     \* Exporter.is_binary for a file no extension rule decides
    expPointer,     \* the pointer manifest .obs/files: {<<filename, md5>>} or None
    expPc,          \* where Exporter.package / StorageOBS.store_files stands
    expView,        \* the locals of Exporter.package: both listings, the index
                    \* read for the plan, files_download and files_delete
    expPending,     \* the awaitables of the running asyncio.gather
    expDownloaded,  \* the filenames downloaded in this run
    expCall,        \* the files_md5 passed to store_files and those that exist
    expRun,         \* the number of the run
    expOrigin,      \* the tree and the store's listing before the first run
    expFaults,      \* what went wrong so far: "failed" | "interrupted"
    stIndex,        \* StorageOBS.index
    stSync,         \* StorageOBS.sync
    stListing,      \* the file list the store package has committed
    stIndexAtCall,  \* StorageOBS.index when store_files was called
    stUploads,      \* the uploads to the store: [key, content, run]
    stCommits,      \* the commitfilelist commands sent to the store
    \* --- Importer.package ----------------------------------------------
    impSkipMeta,    \* Importer.skip_all_package_meta
    impExists,      \* the package exists in the registry
    impTree,        \* the plain files of the package: {<<filename, bytes>>}
    impPtr,         \* .obs/files as Importer.package parses it: {<<filename, md5>>}
    impReg,         \* the registry's committed listing: {<<filename, md5>>}
    impPool,        \* the files put with rev=repository: {<<filename, md5>>}
    impPc,          \* where Importer.package stands
    impView,        \* the locals of Importer.package
    impPending,     \* the awaitables of the running asyncio.gather
    impDone,        \* the awaitables of this run that have completed
    impWrites,      \* the write requests this run has sent to the registry
    impUploaded,    \* this run's file uploads: {<<filename, md5 of the bytes sent>>}
    impManifest,    \* the directory sent with commitfilelist, None before
    impCommits,     \* the commitfilelist commands of this run
    impRun,         \* the number of the run
    \* --- Exporter.is_binary ---------------------------------------------
    clsFile,        \* the file classified: its name, its size, whether its
                    \* first 4 KiB and the rest decode as UTF-8, and the
                    \* confidence chardet reports for the first 4 KiB
    clsOut,         \* what is_binary returned and what it touched
    clsPc,          \* "call" | "returned"
    \* --- app.export / app.import_ --------------------------------------
    appIn,          \* the command line, the configuration and what the
                    \* registry, the store and the repository are like
    appPc,          \* where export / import_ stands
    appMutated,     \* what the invocation has changed: "tree" | "registry" | "store"
    appSent,        \* the write requests sent to the registry: "project" | "package"
    \* --- Exporter.project ----------------------------------------------
    prjObs,         \* the packages of the project in the registry
    prjGit,         \* the packages of the tree
    prjBinary,      \* the packages of the registry that hold a file to store
    prjPc,          \* where Exporter.project stands
    prjView,        \* the locals of Exporter.project
    prjPending,     \* the awaitables of the gather that have not completed
    prjDone,        \* the awaitables of the gather that have completed
    prjCalls,       \* the calls of storage.commit, with what had completed
    prjHash,        \* the hash of the file to store of each package of prjBinary
    prjDownloaded,  \* the packages whose export has downloaded that file
    prjUploads,     \* the store uploads so far: {<<package, md5>>}
    \* --- the pointer manifest .obs/files as a text file ------------------
    mfFiles,        \* the files_md5 argument of the last store_files call
    mfText,         \* the content of .obs/files
    mfParsed,       \* files_md5_git_store as Importer.package read it
    mfPc,           \* "absent" | "written" | "parsed"
    mfRun,          \* the number of store_files calls so far
    \* --- StorageLFS ----------------------------------------------------
    lfsTracked,     \* StorageLFS.tracked: the patterns known to be tracked
    lfsBefore,      \* tracked as it was when the last store_files call began
    lfsCall,        \* the package and the filenames of the last store_files call
    lfsPrev,        \* those of the call before it
    lfsIssued,      \* the git lfs track commands the last call has run
    lfsPc,          \* "new" | "ready" | "stored"
    lfsCalls,       \* the number of store_files calls so far
    \* --- Git.analyze_history ------------------------------------------
    histWalk,       \* the commits repo.walk yields, the tip first
    histTree,       \* Git.packages(): the packages of the tree
    histPos,        \* the position in the walk of the next commit
    first_entry,    \* Git.first_entry
    histOut,        \* what last_revision_to returned or raised
    histPc,         \* "walk" | "analyzed" | "returned"
    \* --- Importer.project ---------------------------------------------
    ipMeta,         \* whether the project metadata is to be uploaded
    ipGit,          \* Git.packages(): the packages of the tree
    ipLinks,        \* the packages of the tree that hold a _link file
    ipObs,          \* the packages of the project in the registry
    ipPc,           \* where Importer.project stands
    ipView,         \* the locals of Importer.project
    ipGroup,        \* the number of the group being gathered
    ipPending,      \* the awaitables of the running gather that have not begun
    ipStarted,      \* the awaitables that have begun
    ipDone          \* the awaitables that have completed

chVars == <<chRec, chRaw, chOut, chPc>>
lnkVars == <<lnkPolicy, lnkPkg, lnkOut, lnkPc>>

expVars == <<expScope, expReg, expTree, expVerdict, expPointer, expPc, expView,
             expPending, expDownloaded, expCall, expRun, expOrigin, expFaults>>
stVars == <<stIndex, stSync, stListing, stIndexAtCall, stUploads, stCommits>>

impVars == <<impSkipMeta, impExists, impTree, impPtr, impReg, impPool, impPc,
             impView, impPending, impDone, impWrites, impUploaded, impManifest,
             impCommits, impRun>>

clsVars == <<clsFile, clsOut, clsPc>>
appVars == <<appIn, appPc, appMutated, appSent>>
prjVars == <<prjObs, prjGit, prjBinary, prjPc, prjView, prjPending, prjDone,
             prjCalls, prjHash, prjDownloaded, prjUploads>>

mfVars == <<mfFiles, mfText, mfParsed, mfPc, mfRun>>

\* The groups of the specifications of single components.
lfsVars == <<lfsTracked, lfsBefore, lfsCall, lfsPrev, lfsIssued, lfsPc,
             lfsCalls>>
histVars == <<histWalk, histTree, histPos, first_entry, histOut, histPc>>
ipVars == <<ipMeta, ipGit, ipLinks, ipObs, ipPc, ipView, ipGroup, ipPending,
            ipStarted, ipDone>>
extVars == <<mfVars, lfsVars, histVars, ipVars>>

\* The groups of the smaller specifications.
restVars == <<clsVars, appVars, prjVars, extVars>>

vars == <<chVars, lnkVars, expVars, stVars, impVars, restVars>>

\* What a specification of one group leaves alone.
notExp == <<chVars, lnkVars, impVars, restVars>>
notImp == <<chVars, lnkVars, expVars, stVars, restVars>>
coreVars == <<chVars, lnkVars, expVars, stVars, impVars, clsVars, appVars,
              prjVars>>
notMf == <<coreVars, lfsVars, histVars, ipVars>>
notLfs == <<coreVars, mfVars, histVars, ipVars>>
notHist == <<coreVars, mfVars, lfsVars, ipVars>>
notIp == <<coreVars, mfVars, lfsVars, histVars>>

None == "none"

(***************************************************************************)
(* Text.  A text is a sequence of atoms; an atom is one character or one   *)
(* field value that holds no line break (an author name, a commit id).     *)
(***************************************************************************)
NL == "\n"

Repeat(atom, n) == [i \in 1..n |-> atom]

RECURSIVE SeqsUpTo(_, _)
SeqsUpTo(S, n) ==
    IF n = 0 THEN {<<>>}
    ELSE LET shorter == SeqsUpTo(S, n - 1)
         IN  shorter \cup {Append(s, x) : s \in shorter, x \in S}

\* The index of the k-th line break of text, 0 when there are fewer.
BreakAt(text, k, from) ==
    LET breaks == {i \in from..Len(text) : text[i] = NL}
    IN  IF Cardinality(breaks) < k THEN 0
        ELSE CHOOSE i \in breaks : Cardinality({j \in breaks : j <= i}) = k

\* The k-th line of text (without its line break), as str.split("\n") gives it.
LineOf(text, k) ==
    LET start == IF k = 1 THEN 1 ELSE BreakAt(text, k - 1, 1) + 1
        stop  == BreakAt(text, k, 1)
    IN  SubSeq(text, start, (IF stop = 0 THEN Len(text) + 1 ELSE stop) - 1)

IsSuffixOf(s, text) ==
    /\ Len(s) <= Len(text)
    /\ SubSeq(text, Len(text) - Len(s) + 1, Len(text)) = s

(***************************************************************************)
(* Importer.changes_git_entry and Importer.prepend_changes.                *)
(***************************************************************************)
SeparatorWidth == 67

MaxRawLen == 2

RawBytes == {"-", NL, "x"}

CommitIds == {"1f3a9c0", "b7e4d21"}
Authors   == {"Ada Lovelace", "J. Doe"}
Emails    == {"ada@example.org", "jd@example.com"}

\* datetime.utcfromtimestamp(commit.commit_time), by its calendar fields
CommitDates ==
    { [wd |-> "Mon", mon |-> "Jan", day |-> "06", hh |-> "09", mm |-> "05",
       ss |-> "00", year |-> "2020"],
      [wd |-> "Sun", mon |-> "Dec", day |-> "31", hh |-> "23", mm |-> "59",
       ss |-> "59", year |-> "2023"] }

RevisionRecords ==
    [commit_hash : CommitIds, author : Authors, email : Emails,
     commit_date : CommitDates]

\* commit_date.strftime("%a %b %d %H:%M:%S UTC %Y")
strftime(d) ==
    <<d.wd, " ", d.mon, " ", d.day, " ", d.hh, ":", d.mm, ":", d.ss,
      " ", "UTC", " ", d.year>>

changes_git_entry(rec) ==
    Repeat("-", SeparatorWidth)
        \o <<NL>> \o strftime(rec.commit_date)
        \o <<" ", "-", " ", rec.author, " ", "<", rec.email, ">">>
        \o <<NL, NL, "-", " ", "Last git synchronization: ", rec.commit_hash,
             NL, NL>>

prepend_changes_after(rec, raw) == raw \o changes_git_entry(rec)

prepend_changes(rec, raw) == changes_git_entry(rec) \o raw

ChInit ==
    /\ chRec \in RevisionRecords
    /\ chRaw \in SeqsUpTo(RawBytes, MaxRawLen)
    /\ chOut = <<>>
    /\ chPc = "input"

ChIdle ==
    /\ chRec = None
    /\ chRaw = <<>>
    /\ chOut = <<>>
    /\ chPc = "idle"

PrependChanges ==
    /\ chPc = "input"
    /\ chOut' = prepend_changes(chRec, chRaw)
    /\ chPc' = "stamped"
    /\ UNCHANGED <<chRec, chRaw>>

ChNext == PrependChanges /\ UNCHANGED <<lnkVars, expVars, stVars, impVars, restVars>>

(***************************************************************************)
(* AsyncOBS.files_md5_revision: the listing of a package and its active    *)
(* revision, under the link policy.  What the registry answers is the      *)
(* input: the directory of the package at rev=latest (its entries, its rev *)
(* and, for a link, the linkinfo's xsrcmd5), the project attribute of the  *)
(* _link document (None when absent), and the directory at rev=xsrcmd5.    *)
(***************************************************************************)
OwnProject == "home:me"
OtherProject == "openSUSE:Factory"

LinkPolicies == {"never", "auto", "always"}

MaxListing == 2

ListingNames == <<"a.spec", "a.tar.gz", "a.changes", "a.patch">>

Md5s == {"md5-1", "md5-2"}

\* A listing: a set of (filename, md5) with unique filenames.
Listings(n) ==
    LET names == {ListingNames[i] : i \in 1..n}
    IN  UNION { {{<<f, g[f]>> : f \in D} : g \in [D -> Md5s]} : D \in SUBSET names }

LinkEntry == <<"_link", "md5-link">>

LinkedPackages ==
    [entries : {l \cup {LinkEntry} : l \in Listings(MaxListing)},
     rev : {"7"},
     link_project : {None, OwnProject, OtherProject},
     xsrcmd5 : {"x5"},
     expanded : Listings(MaxListing)]

PlainPackages ==
    [entries : Listings(MaxListing),
     rev : {"7"},
     link_project : {None},
     xsrcmd5 : {None},
     expanded : {{}}]

\* root.find(".//entry[@name='_link']") is not None
HasLink(pkg) == \E e \in pkg.entries : e[1] = "_link"

\* project_link and project_link != project
CrossesProject(pkg, project) ==
    pkg.link_project # None /\ pkg.link_project # project

files_md5_revision_never_any_link(policy, project, pkg) ==
    IF HasLink(pkg) /\ policy = "never"
    THEN [files |-> {}, revision |-> None, error |-> TRUE]
    ELSE IF HasLink(pkg)
            /\ ((CrossesProject(pkg, project) /\ policy = "auto") \/ policy = "always")
         THEN [files |-> pkg.expanded, revision |-> pkg.xsrcmd5, error |-> FALSE]
         ELSE [files |-> pkg.entries, revision |-> pkg.rev, error |-> FALSE]

files_md5_revision_auto_any_link(policy, project, pkg) ==
    IF HasLink(pkg) /\ CrossesProject(pkg, project) /\ policy = "never"
    THEN [files |-> {}, revision |-> None, error |-> TRUE]
    ELSE IF HasLink(pkg) /\ policy \in {"auto", "always"}
         THEN [files |-> pkg.expanded, revision |-> pkg.xsrcmd5, error |-> FALSE]
         ELSE [files |-> pkg.entries, revision |-> pkg.rev, error |-> FALSE]

files_md5_revision(policy, project, pkg) ==
    IF HasLink(pkg) /\ CrossesProject(pkg, project) /\ policy = "never"
    THEN [files |-> {}, revision |-> None, error |-> TRUE]
    ELSE IF HasLink(pkg)
            /\ ((CrossesProject(pkg, project) /\ policy = "auto") \/ policy = "always")
         THEN [files |-> pkg.expanded, revision |-> pkg.xsrcmd5, error |-> FALSE]
         ELSE [files |-> pkg.entries, revision |-> pkg.rev, error |-> FALSE]

LnkInit ==
    /\ lnkPolicy \in LinkPolicies
    /\ lnkPkg \in LinkedPackages \cup PlainPackages
    /\ lnkOut = None
    /\ lnkPc = "call"

LnkIdle ==
    /\ lnkPolicy = None
    /\ lnkPkg = None
    /\ lnkOut = None
    /\ lnkPc = "idle"

FilesMd5Revision ==
    /\ lnkPc = "call"
    /\ lnkOut' = files_md5_revision(lnkPolicy, OwnProject, lnkPkg)
    /\ lnkPc' = "returned"
    /\ UNCHANGED <<lnkPolicy, lnkPkg>>

LnkNext == FilesMd5Revision /\ UNCHANGED <<chVars, expVars, stVars, impVars, restVars>>

(***************************************************************************)
(* File names.  pathlib's suffix and str.endswith read the characters of a *)
(* name, so every file name of the model has its characters on record.     *)
(***************************************************************************)
Chars(name) ==
    CASE name = "a.tar.gz"    -> <<"a", ".", "t", "a", "r", ".", "g", "z">>
      [] name = "README"      -> <<"R", "E", "A", "D", "M", "E">>
      [] name = "a.spec"      -> <<"a", ".", "s", "p", "e", "c">>
      [] name = "a.obscpio"   -> <<"a", ".", "o", "b", "s", "c", "p", "i", "o">>
      [] name = "a.changes"   -> <<"a", ".", "c", "h", "a", "n", "g", "e", "s">>
      [] name = ".changes"    -> <<".", "c", "h", "a", "n", "g", "e", "s">>
      [] name = "a.patch"     -> <<"a", ".", "p", "a", "t", "c", "h">>
      [] name = "_link"       -> <<"_", "l", "i", "n", "k">>

\* str.rfind("."): the last index of a dot, 0 when there is none
RECURSIVE RFindDot(_, _)
RFindDot(cs, i) ==
    IF i = 0 THEN 0 ELSE IF cs[i] = "." THEN i ELSE RFindDot(cs, i - 1)

\* pathlib.PurePath.suffix: the last dot-separated part of the name, with its
\* dot; empty when the only dot leads the name or ends it
Suffix(name) ==
    LET cs == Chars(name)
        i  == RFindDot(cs, Len(cs))
    IN  IF 1 < i /\ i < Len(cs) THEN SubSeq(cs, i, Len(cs)) ELSE <<>>

\* str.endswith
EndsWith(name, cs) == IsSuffixOf(cs, Chars(name))

DotChanges == <<".", "c", "h", "a", "n", "g", "e", "s">>

\* The members of Exporter.BINARY, NON_BINARY_EXCEPTIONS and NON_BINARY that
\* the file names of the model meet.
BINARY == {<<".", "g", "z">>, <<".", "x", "z">>}
NON_BINARY_EXCEPTIONS == {<<".", "o", "b", "s", "c", "p", "i", "o">>}
NON_BINARY == {DotChanges, <<".", "s", "p", "e", "c">>, <<".", "p", "a", "t", "c", "h">>}

(***************************************************************************)
(* Exporter.package (registry -> tree) with StorageOBS as the store.       *)
(***************************************************************************)
MaxExpFiles == 2

MaxRuns == 2

ExpNameList == <<"a.tar.gz", "README", "a.spec", "a.obscpio">>

ExpNames == {ExpNameList[i] : i \in 1..MaxExpFiles}

Hashes == {"h1", "h2"}

\* FileSets: sets of (filename, md5) in which a filename occurs once.
FileSets(names) ==
    UNION { {{<<f, g[f]>> : f \in D} : g \in [D -> Hashes]} : D \in SUBSET names }

Names(files_md5) == {e[1] : e \in files_md5}

RemoveFile(files_md5, filename) == {e \in files_md5 : e[1] # filename}

is_binary_content_first(filename, verdict) ==
    IF ~verdict THEN FALSE
    ELSE IF Suffix(filename) \in BINARY \/ Suffix(filename) \in NON_BINARY_EXCEPTIONS
    THEN TRUE
    ELSE Suffix(filename) \notin NON_BINARY

\* Exporter.is_binary, by its extension rules; verdict stands for what the
\* size and content rules answer when no extension rule applies.
is_binary(filename, verdict) ==
    IF Suffix(filename) \in BINARY \/ Suffix(filename) \in NON_BINARY_EXCEPTIONS
    THEN TRUE
    ELSE IF Suffix(filename) \in NON_BINARY THEN FALSE ELSE verdict

files_download_unfiltered(files_md5_obs, files_md5_git, index) ==
    {e[1] : e \in files_md5_obs \ files_md5_git}

files_download(files_md5_obs, files_md5_git, index) ==
    {e[1] : e \in {x \in files_md5_obs \ files_md5_git : x[2] \notin index}}

files_delete_all_git(files_md5_obs, files_md5_git) == Names(files_md5_git)

files_delete(files_md5_obs, files_md5_git) ==
    Names(files_md5_git) \ Names(files_md5_obs)

files_md5_to_store_downloaded_only(files_md5_obs, downloaded, index, verdict) ==
    {e \in files_md5_obs : e[1] \in downloaded /\ is_binary(e[1], verdict)}

\* files_md5_store + files_md5_obs_store, the argument of store_files
files_md5_to_store(files_md5_obs, downloaded, index, verdict) ==
    {e \in files_md5_obs : e[1] \in downloaded /\ is_binary(e[1], verdict)}
        \cup {e \in files_md5_obs : e[2] \in index}

\* files_md5_exists of store_files
files_md5_exists(files_md5, tree) == {e \in files_md5 : e[1] \in Names(tree)}

ExpInit ==
    /\ expScope \in {"package", "project"}
    /\ expReg \in FileSets(ExpNames)
    /\ expTree \in FileSets(ExpNames)
    /\ expVerdict \in BOOLEAN
    /\ expPointer = None
    /\ expPc = "start"
    /\ expView = None
    /\ expPending = {}
    /\ expDownloaded = {}
    /\ expCall = None
    /\ expRun = 1
    /\ expFaults = {}
    /\ stIndex \in SUBSET Hashes
    /\ stSync = TRUE
    /\ stListing = stIndex
    /\ stIndexAtCall = {}
    /\ stUploads = {}
    /\ stCommits = <<>>
    /\ expOrigin = [tree |-> expTree, listing |-> stListing]

\* The registry answers for a package without a link: its listing is expReg.
ExpPlainPackage ==
    /\ lnkPolicy = "auto"
    /\ lnkPkg = [entries |-> expReg, rev |-> "7", link_project |-> None,
                 xsrcmd5 |-> None, expanded |-> {}]
    /\ lnkOut = None
    /\ lnkPc = "idle"

\* The registry answers for a package that is a link: its own listing holds
\* the link file, the expanded listing holds the files.
ExpLinkedPackages ==
    [entries : {{LinkEntry}},
     rev : {"7"},
     link_project : {OwnProject, OtherProject},
     xsrcmd5 : {"x5"},
     expanded : FileSets(ExpNames)]

\* Exporter.package of a linked package, under each link policy.
ExpLinkInit ==
    /\ lnkPolicy \in LinkPolicies
    /\ lnkPkg \in ExpLinkedPackages
    /\ lnkOut = None
    /\ lnkPc = "idle"
    /\ expScope \in {"package", "project"}
    /\ expReg = lnkPkg.entries
    /\ expTree \in FileSets(ExpNames)
    /\ expVerdict \in BOOLEAN
    /\ expPointer = None
    /\ expPc = "start"
    /\ expView = None
    /\ expPending = {}
    /\ expDownloaded = {}
    /\ expCall = None
    /\ expRun = 1
    /\ expFaults = {}
    /\ stIndex \in SUBSET Hashes
    /\ stSync = TRUE
    /\ stListing = stIndex
    /\ stIndexAtCall = {}
    /\ stUploads = {}
    /\ stCommits = <<>>
    /\ expOrigin = [tree |-> expTree, listing |-> stListing]

ExpIdle ==
    /\ expScope = None
    /\ expReg = {}
    /\ expTree = {}
    /\ expVerdict = FALSE
    /\ expPointer = None
    /\ expPc = "idle"
    /\ expView = None
    /\ expPending = {}
    /\ expDownloaded = {}
    /\ expCall = None
    /\ expRun = 0
    /\ expOrigin = None
    /\ expFaults = {}

StIdle ==
    /\ stIndex = {}
    /\ stSync = TRUE
    /\ stListing = {}
    /\ stIndexAtCall = {}
    /\ stUploads = {}
    /\ stCommits = <<>>

\* Exporter.package up to its first gather: both listings are read and the
\* downloads and deletions are scheduled.
ExpPlan ==
    /\ expPc = "start"
    /\ LET obs == files_md5_revision(lnkPolicy, OwnProject, lnkPkg).files
       IN  /\ expView' = [obs |-> obs, git |-> expTree, index |-> stIndex,
                          download |-> files_download(obs, expTree, stIndex),
                          delete |-> files_delete(obs, expTree)]
           /\ expPending' =
                  {<<"download", f>> : f \in files_download(obs, expTree, stIndex)}
                      \cup {<<"delete", f>> : f \in files_delete(obs, expTree)}
    /\ expDownloaded' = {}
    /\ expPc' = "sync"
    /\ UNCHANGED <<notExp, expOrigin, expFaults,
                   expScope, expReg, expTree, expVerdict, expPointer, expCall,
                   expRun, stVars>>

\* AsyncOBS.download of one planned file completes.
ExpDownload(f) ==
    /\ expPc = "sync"
    /\ <<"download", f>> \in expPending
    /\ expTree' = RemoveFile(expTree, f) \cup {e \in expView.obs : e[1] = f}
    /\ expDownloaded' = expDownloaded \cup {f}
    /\ expPending' = expPending \ {<<"download", f>>}
    /\ UNCHANGED <<notExp, expOrigin, expFaults,
                   expScope, expReg, expVerdict, expPointer, expPc, expView,
                   expCall, expRun, stVars>>

\* Git.delete of one planned file completes.
ExpDelete(f) ==
    /\ expPc = "sync"
    /\ <<"delete", f>> \in expPending
    /\ expTree' = RemoveFile(expTree, f)
    /\ expPending' = expPending \ {<<"delete", f>>}
    /\ UNCHANGED <<notExp, expOrigin, expFaults,
                   expScope, expReg, expVerdict, expPointer, expPc, expView,
                   expDownloaded, expCall, expRun, stVars>>

\* The first gather has returned: Exporter.package calls store_files, which
\* schedules one _store per listed file that exists in the tree.
StoreFiles ==
    /\ expPc = "sync"
    /\ expPending = {}
    /\ LET files_md5 == files_md5_to_store(expView.obs, expDownloaded, stIndex,
                                           expVerdict)
           exists    == files_md5_exists(files_md5, expTree)
       IN  /\ expCall' = [files_md5 |-> files_md5, exists |-> exists]
           /\ expPending' = {<<"store", e>> : e \in exists}
    /\ stIndexAtCall' = stIndex
    /\ expPc' = "storing"
    /\ UNCHANGED <<notExp, expOrigin, expFaults,
                   expScope, expReg, expTree, expVerdict, expPointer, expView,
                   expDownloaded, expRun, stIndex, stSync, stListing, stUploads,
                   stCommits>>

StoreStart_replaces_index(e) ==
    /\ expPc = "storing"
    /\ <<"store", e>> \in expPending
    /\ stIndex' = {e[2]}
    /\ stSync' = FALSE
    /\ expPending' = (expPending \ {<<"store", e>>}) \cup {<<"upload", e>>}
    /\ UNCHANGED <<notExp, expOrigin, expFaults,
                   expScope, expReg, expTree, expVerdict, expPointer, expPc,
                   expView, expDownloaded, expCall, expRun, stListing,
                   stIndexAtCall, stUploads, stCommits>>

\* StorageOBS._store up to its await: the hash enters the index, the store is
\* marked out of sync and the upload of the tree file starts.
StoreStart(e) ==
    /\ expPc = "storing"
    /\ <<"store", e>> \in expPending
    /\ stIndex' = stIndex \cup {e[2]}
    /\ stSync' = FALSE
    /\ expPending' = (expPending \ {<<"store", e>>}) \cup {<<"upload", e>>}
    /\ UNCHANGED <<notExp, expOrigin, expFaults,
                   expScope, expReg, expTree, expVerdict, expPointer, expPc,
                   expView, expDownloaded, expCall, expRun, stListing,
                   stIndexAtCall, stUploads, stCommits>>

\* The upload of StorageOBS._store completes: the bytes of the tree file are
\* now in the store under the name md5.
StoreUploaded(e) ==
    /\ expPc = "storing"
    /\ <<"upload", e>> \in expPending
    /\ stUploads' = stUploads \cup
           {[key |-> e[2],
             content |-> (CHOOSE t \in expTree : t[1] = e[1])[2],
             run |-> expRun]}
    /\ expPending' = expPending \ {<<"upload", e>>}
    /\ UNCHANGED <<notExp, expOrigin, expFaults,
                   expScope, expReg, expTree, expVerdict, expPointer, expPc,
                   expView, expDownloaded, expCall, expRun, stIndex, stSync,
                   stListing, stIndexAtCall, stCommits>>

StoreRemoveBegin_before_uploads ==
    /\ expPc = "storing"
    /\ expPending' = {<<"unlink", e[1]>> : e \in expCall.exists}
    /\ expPc' = "removing"
    /\ UNCHANGED <<notExp, expOrigin, expFaults,
                   expScope, expReg, expTree, expVerdict, expPointer, expView,
                   expDownloaded, expCall, expRun, stVars>>

\* The gather of the _store calls has returned: store_files schedules the
\* removal of the stored files from the tree.
StoreRemoveBegin ==
    /\ expPc = "storing"
    /\ expPending = {}
    /\ expPending' = {<<"unlink", e[1]>> : e \in expCall.exists}
    /\ expPc' = "removing"
    /\ UNCHANGED <<notExp, expOrigin, expFaults,
                   expScope, expReg, expTree, expVerdict, expPointer, expView,
                   expDownloaded, expCall, expRun, stVars>>

StoreUnlink(f) ==
    /\ expPc = "removing"
    /\ <<"unlink", f>> \in expPending
    /\ expTree' = RemoveFile(expTree, f)
    /\ expPending' = expPending \ {<<"unlink", f>>}
    /\ UNCHANGED <<notExp, expOrigin, expFaults,
                   expScope, expReg, expVerdict, expPointer, expPc, expView,
                   expDownloaded, expCall, expRun, stVars>>

\* store_files rewrites .obs/files wholesale and returns; so does
\* Exporter.package.
StoreWriteManifest ==
    /\ expPc = "removing"
    /\ expPending = {}
    /\ expPointer' = expCall.files_md5
    /\ expPc' = "exported"
    /\ UNCHANGED <<notExp, expOrigin, expFaults,
                   expScope, expReg, expTree, expVerdict, expView, expPending,
                   expDownloaded, expCall, expRun, stVars>>

\* StorageOBS.commit, which Exporter.project calls after its packages.
StorageCommit ==
    /\ expPc = "exported"
    /\ expScope = "project"
    /\ IF stSync
       THEN UNCHANGED <<stCommits, stListing, stSync>>
       ELSE /\ stCommits' = Append(stCommits, stIndex)
            /\ stListing' = stIndex
            /\ stSync' = TRUE
    /\ expPc' = "finished"
    /\ UNCHANGED <<notExp, expOrigin, expFaults,
                   expScope, expReg, expTree, expVerdict, expPointer, expView,
                   expPending, expDownloaded, expCall, expRun, stIndex,
                   stIndexAtCall, stUploads>>

\* app.export of a single package calls Exporter.package alone.
ExpPackageReturns ==
    /\ expPc = "exported"
    /\ expScope = "package"
    /\ expPc' = "finished"
    /\ UNCHANGED <<notExp, expOrigin, expFaults,
                   expScope, expReg, expTree, expVerdict, expPointer, expView,
                   expPending, expDownloaded, expCall, expRun, stVars>>

\* The export is invoked again in a new process, against the same registry:
\* StorageOBS.__init__ builds the index from the store's listing.
ExpRunAgain ==
    /\ expPc = "finished"
    /\ expRun < MaxRuns
    /\ expRun' = expRun + 1
    /\ expPc' = "start"
    /\ expView' = None
    /\ expCall' = None
    /\ expDownloaded' = {}
    /\ stIndex' = stListing
    /\ stSync' = TRUE
    /\ UNCHANGED <<notExp, expOrigin, expFaults,
                   expScope, expReg, expTree, expVerdict, expPointer, expPending,
                   stListing, stIndexAtCall, stUploads, stCommits>>

\* The filenames and hashes a listing may hold, the link file included.
ExpFileNames == ExpNames \cup {LinkEntry[1]}

ExpEntries == ExpFileNames \X (Hashes \cup {LinkEntry[2]})

ExpNext ==
    \/ ExpPlan
    \/ \E f \in ExpFileNames : ExpDownload(f)
    \/ \E f \in ExpFileNames : ExpDelete(f)
    \/ StoreFiles
    \/ \E e \in ExpEntries : StoreStart(e)
    \/ \E e \in ExpEntries : StoreUploaded(e)
    \/ StoreRemoveBegin
    \/ \E f \in ExpFileNames : StoreUnlink(f)
    \/ StoreWriteManifest
    \/ StorageCommit
    \/ ExpPackageReturns
    \/ ExpRunAgain

(***************************************************************************)
(* Exporter.package when an awaitable raises or the process is stopped.    *)
(* Nothing in Exporter, StorageOBS or app.export catches an exception: one *)
(* raised by an awaitable leaves its gather, Exporter.package,             *)
(* Exporter.project and export, and the process ends with the other        *)
(* awaitables of the gather cancelled.                                     *)
(***************************************************************************)
ExpRunning == expPc \in {"start", "sync", "storing", "removing", "exported"}

\* AsyncOBS.download of one planned file raises before it writes the file.
ExpDownloadRaises(f) ==
    /\ expPc = "sync"
    /\ <<"download", f>> \in expPending
    /\ expPc' = "raised"
    /\ expFaults' = expFaults \cup {"failed"}
    /\ UNCHANGED <<notExp, expOrigin, expScope, expReg, expTree, expVerdict,
                   expPointer, expView, expPending, expDownloaded, expCall,
                   expRun, stVars>>

\* Git.delete of one planned file raises.
ExpDeleteRaises(f) ==
    /\ expPc = "sync"
    /\ <<"delete", f>> \in expPending
    /\ expPc' = "raised"
    /\ expFaults' = expFaults \cup {"failed"}
    /\ UNCHANGED <<notExp, expOrigin, expScope, expReg, expTree, expVerdict,
                   expPointer, expView, expPending, expDownloaded, expCall,
                   expRun, stVars>>

\* The process is stopped from outside, wherever the export stands.
ExpInterrupt ==
    /\ ExpRunning
    /\ expPc' = "interrupted"
    /\ expFaults' = expFaults \cup {"interrupted"}
    /\ UNCHANGED <<notExp, expOrigin, expScope, expReg, expTree, expVerdict,
                   expPointer, expView, expPending, expDownloaded, expCall,
                   expRun, stVars>>

\* The export is invoked again after it raised or was stopped: a new process,
\* the same registry, the tree and the store as they were left.
ExpRunAfterFault ==
    /\ expPc \in {"raised", "interrupted"}
    /\ expRun < MaxRuns
    /\ expRun' = expRun + 1
    /\ expPc' = "start"
    /\ expView' = None
    /\ expCall' = None
    /\ expPending' = {}
    /\ expDownloaded' = {}
    /\ stIndex' = stListing
    /\ stSync' = TRUE
    /\ UNCHANGED <<notExp, expOrigin, expFaults, expScope, expReg, expTree,
                   expVerdict, expPointer, stListing, stIndexAtCall, stUploads,
                   stCommits>>

ExpFaultNext ==
    \/ ExpPlan
    \/ \E f \in ExpFileNames : ExpDownload(f)
    \/ \E f \in ExpFileNames : ExpDelete(f)
    \/ StoreFiles
    \/ \E e \in ExpEntries : StoreStart(e)
    \/ \E e \in ExpEntries : StoreUploaded(e)
    \/ StoreRemoveBegin
    \/ \E f \in ExpFileNames : StoreUnlink(f)
    \/ StoreWriteManifest
    \/ StorageCommit
    \/ ExpPackageReturns
    \/ ExpRunAgain
    \/ \E f \in ExpFileNames : ExpDownloadRaises(f)
    \/ \E f \in ExpFileNames : ExpDeleteRaises(f)
    \/ ExpInterrupt
    \/ ExpRunAfterFault

\* What one export that nothing disturbs leaves behind: the tree, the pointer
\* manifest, the objects uploaded to the store and the store's listing.
ExportResult(scope, obs, tree, listing, verdict) ==
    LET down     == files_download(obs, tree, listing)
        del      == files_delete(obs, tree)
        synced   == {e \in tree : e[1] \notin down \cup del}
                        \cup {e \in obs : e[1] \in down}
        to_store == files_md5_to_store(obs, down, listing, verdict)
        stored   == files_md5_exists(to_store, synced)
    IN  [tree    |-> {e \in synced : e[1] \notin Names(stored)},
         pointer |-> to_store,
         objects |-> {<<e[2], (CHOOSE t \in synced : t[1] = e[1])[2]>> : e \in stored},
         listing |-> IF scope = "project" /\ stored # {}
                     THEN listing \cup {e[2] : e \in stored}
                     ELSE listing]

\* What the export has left behind so far.
ExportState ==
    [tree    |-> expTree,
     pointer |-> expPointer,
     objects |-> {<<u.key, u.content>> : u \in stUploads},
     listing |-> stListing]

(***************************************************************************)
(* Importer.package (tree -> registry), run and run again on an unchanged  *)
(* tree.  The registry keeps the files put with rev=repository aside until *)
(* a commitfilelist names them; it rejects a file list that names a file   *)
(* it does not hold with that md5.                                         *)
(***************************************************************************)
MaxImpFiles == 2

MaxImpRuns == 2

ImpNameList == <<".changes", "a.changes", "a.spec", "a.patch">>

ImpNames == {ImpNameList[i] : i \in 1..MaxImpFiles}

\* hashlib.md5(bytes).hexdigest(): one digest per byte sequence
MD5(bytes) == <<"md5", bytes>>

\* The md5 slot of an awaitable that carries none (a deletion)
NoMd5 == <<"md5", <<>>>>

\* The bytes of a plain file of the tree, and of an object of the store.
RawContent == <<"x", NL>>
BlobContent == <<"b">>

\* Git.last_revision_to(package)
ImpRevision ==
    [commit_hash |-> "1f3a9c0", author |-> "J. Doe", email |-> "jd@example.com",
     commit_date |-> [wd |-> "Mon", mon |-> "Jan", day |-> "06", hh |-> "09",
                      mm |-> "05", ss |-> "00", year |-> "2020"]]

ImpTrees == UNION { {{<<f, RawContent>> : f \in D}} : D \in SUBSET ImpNames }

\* The hashes of the pointer manifest: of an object the store may hold, and
\* of one it does not.
ImpPtrHashes == {MD5(BlobContent), MD5(<<"c">>)}

ImpPointers ==
    UNION { {{<<f, g[f]>> : f \in D} : g \in [D -> ImpPtrHashes]} : D \in SUBSET ImpNames }

ImpRegHashes ==
    {MD5(RawContent), MD5(prepend_changes(ImpRevision, RawContent)), MD5(BlobContent)}

ImpRegistries ==
    UNION { {{<<f, g[f]>> : f \in D} : g \in [D -> ImpRegHashes]} : D \in SUBSET ImpNames }

\* Importer._git_files_md5: the md5 of each plain file, of the stamped bytes
\* when the suffix of the name is .changes
git_files_md5(tree) ==
    {<<e[1], IF Suffix(e[1]) = DotChanges
             THEN MD5(prepend_changes(ImpRevision, e[2]))
             ELSE MD5(e[2])>> : e \in tree}

\* The bytes Importer.package uploads for a file of files_md5_upload: the
\* stamped bytes when the name ends with .changes
upload_bytes(filename, raw) ==
    IF EndsWith(filename, DotChanges)
    THEN prepend_changes(ImpRevision, raw)
    ELSE raw

files_md5_upload(files_md5_obs, files_md5_git) == files_md5_git \ files_md5_obs

files_md5_transfer(files_md5_obs, files_md5_git_store) ==
    files_md5_git_store \ files_md5_obs

imp_files_delete(files_md5_obs, files_md5_git, files_md5_git_store) ==
    (Names(files_md5_obs) \ Names(files_md5_git)) \ Names(files_md5_git_store)

\* The directory of the commit: one entry per element of the union
imp_directory(files_md5_git, files_md5_git_store) ==
    files_md5_git \cup files_md5_git_store

\* The listings the registry can show after a commitfilelist: unchanged when
\* the directory names a file it does not hold with that md5, else one entry
\* per filename of the directory.
RegistryAfterCommit(listing, pool, directory) ==
    IF \E e \in directory : e \notin pool \cup listing
    THEN {listing}
    ELSE {l \in SUBSET directory :
             \A f \in Names(directory) : Cardinality({e \in l : e[1] = f}) = 1}

ImpInit ==
    /\ impSkipMeta \in BOOLEAN
    /\ impTree \in ImpTrees
    /\ impPtr \in ImpPointers
    /\ impReg \in ImpRegistries
    /\ impExists \in {x \in BOOLEAN : impReg # {} => x}
    /\ impPool = {}
    /\ impPc = "start"
    /\ impView = None
    /\ impPending = {}
    /\ impDone = {}
    /\ impWrites = {}
    /\ impUploaded = {}
    /\ impManifest = None
    /\ impCommits = 0
    /\ impRun = 1

\* The store the importer transfers from: its index, built at construction.
StInitImport ==
    /\ stIndex \in SUBSET {MD5(BlobContent)}
    /\ stSync = TRUE
    /\ stListing = stIndex
    /\ stIndexAtCall = {}
    /\ stUploads = {}
    /\ stCommits = <<>>

ImpIdle ==
    /\ impSkipMeta = FALSE
    /\ impExists = FALSE
    /\ impTree = {}
    /\ impPtr = {}
    /\ impReg = {}
    /\ impPool = {}
    /\ impPc = "idle"
    /\ impView = None
    /\ impPending = {}
    /\ impDone = {}
    /\ impWrites = {}
    /\ impUploaded = {}
    /\ impManifest = None
    /\ impCommits = 0
    /\ impRun = 0

\* Importer.package up to the listing: package_metadata uploads _meta unless
\* the package exists and skip_all_package_meta is set.
ImpMetadata ==
    /\ impPc = "start"
    /\ IF ~(impExists /\ impSkipMeta)
       THEN /\ impWrites' = impWrites \cup {<<"upload", "_meta">>}
            /\ impExists' = TRUE
       ELSE UNCHANGED <<impWrites, impExists>>
    /\ impPc' = "list"
    /\ UNCHANGED <<notImp, impSkipMeta, impTree, impPtr, impReg, impPool, impView,
                   impPending, impDone, impUploaded, impManifest, impCommits,
                   impRun>>

\* The three listings are read, the three sets computed and the gather of
\* uploads, transfers and deletions is scheduled.
ImpPlan ==
    /\ impPc = "list"
    /\ LET obs   == files_md5_revision("auto", OwnProject,
                        [entries |-> impReg, rev |-> "latest",
                         link_project |-> None, xsrcmd5 |-> None,
                         expanded |-> {}]).files
           git   == git_files_md5(impTree)
           store == impPtr
           up    == files_md5_upload(obs, git)
           tr    == files_md5_transfer(obs, store)
           del   == imp_files_delete(obs, git, store)
       IN  /\ impView' = [obs |-> obs, git |-> git, store |-> store,
                          upload |-> up, transfer |-> tr, delete |-> del]
           /\ impPending' = {<<"upload", e[1], e[2]>> : e \in up}
                                \cup {<<"transfer", e[1], e[2]>> : e \in tr}
                                \cup {<<"delete", f, NoMd5>> : f \in del}
    /\ impPc' = "gather"
    /\ UNCHANGED <<notImp, impSkipMeta, impExists, impTree, impPtr, impReg,
                   impPool, impDone, impWrites, impUploaded, impManifest,
                   impCommits, impRun>>

transfer_never_asserts(index, md5) == FALSE

\* StorageOBS.transfer: whether its assertion fails, which it tests before it
\* sends anything.
transfer_asserts(index, md5) == md5 \notin index

\* AsyncOBS.upload of one file of files_md5_upload completes.
ImpUpload(op) ==
    /\ impPc = "gather"
    /\ op \in impPending
    /\ op[1] = "upload"
    /\ LET raw  == (CHOOSE e \in impTree : e[1] = op[2])[2]
           sent == <<op[2], MD5(upload_bytes(op[2], raw))>>
       IN  /\ impPool' = impPool \cup {sent}
           /\ impUploaded' = impUploaded \cup {sent}
    /\ impWrites' = impWrites \cup {<<"upload", op[2]>>}
    /\ impPending' = impPending \ {op}
    /\ impDone' = impDone \cup {op}
    /\ UNCHANGED <<notImp, impSkipMeta, impExists, impTree, impPtr, impReg, impPc,
                   impView, impManifest, impCommits, impRun>>

\* StorageOBS.transfer of one pointer entry whose md5 is in the index.
ImpTransfer(op) ==
    /\ impPc = "gather"
    /\ op \in impPending
    /\ op[1] = "transfer"
    /\ ~transfer_asserts(stIndex, op[3])
    /\ impPool' = impPool \cup {<<op[2], op[3]>>}
    /\ impWrites' = impWrites \cup {<<"transfer", op[2]>>}
    /\ impPending' = impPending \ {op}
    /\ impDone' = impDone \cup {op}
    /\ UNCHANGED <<notImp, impSkipMeta, impExists, impTree, impPtr, impReg, impPc,
                   impView, impUploaded, impManifest, impCommits, impRun>>

\* StorageOBS.transfer of a pointer entry whose md5 is not in the index: the
\* assertion fails, gather raises and Importer.package ends there.
ImpTransferAsserts(op) ==
    /\ impPc = "gather"
    /\ op \in impPending
    /\ op[1] = "transfer"
    /\ transfer_asserts(stIndex, op[3])
    /\ impPc' = "failed"
    /\ UNCHANGED <<notImp, impSkipMeta, impExists, impTree, impPtr, impReg,
                   impPool, impView, impPending, impDone, impWrites, impUploaded,
                   impManifest, impCommits, impRun>>

\* AsyncOBS.delete of one file of files_delete completes.
ImpDelete(op) ==
    /\ impPc = "gather"
    /\ op \in impPending
    /\ op[1] = "delete"
    /\ impWrites' = impWrites \cup {<<"delete", op[2]>>}
    /\ impPending' = impPending \ {op}
    /\ impDone' = impDone \cup {op}
    /\ UNCHANGED <<notImp, impSkipMeta, impExists, impTree, impPtr, impReg,
                   impPool, impPc, impView, impUploaded, impManifest, impCommits,
                   impRun>>

ImpCommit_before_gather_returns ==
    /\ impPc = "gather"
    /\ impView.upload # {} \/ impView.transfer # {} \/ impView.delete # {}
    /\ impManifest' = [directory |-> imp_directory(impView.git, impView.store),
                       done |-> impDone]
    /\ impReg' \in RegistryAfterCommit(impReg, impPool,
                                       imp_directory(impView.git, impView.store))
    /\ impWrites' = impWrites \cup {<<"commitfilelist", None>>}
    /\ impCommits' = impCommits + 1
    /\ impPc' = "done"
    /\ UNCHANGED <<notImp, impSkipMeta, impExists, impTree, impPtr, impPool,
                   impView, impPending, impDone, impUploaded, impRun>>

\* The gather has returned and one of the three sets is not empty: the
\* directory is built and sent with commitfilelist.
ImpCommit ==
    /\ impPc = "gather"
    /\ impPending = {}
    /\ impView.upload # {} \/ impView.transfer # {} \/ impView.delete # {}
    /\ impManifest' = [directory |-> imp_directory(impView.git, impView.store),
                       done |-> impDone]
    /\ impReg' \in RegistryAfterCommit(impReg, impPool,
                                       imp_directory(impView.git, impView.store))
    /\ impWrites' = impWrites \cup {<<"commitfilelist", None>>}
    /\ impCommits' = impCommits + 1
    /\ impPc' = "done"
    /\ UNCHANGED <<notImp, impSkipMeta, impExists, impTree, impPtr, impPool,
                   impView, impPending, impDone, impUploaded, impRun>>

\* The gather has returned and the three sets are empty: nothing is sent.
ImpNoCommit ==
    /\ impPc = "gather"
    /\ impPending = {}
    /\ impView.upload = {} /\ impView.transfer = {} /\ impView.delete = {}
    /\ impPc' = "done"
    /\ UNCHANGED <<notImp, impSkipMeta, impExists, impTree, impPtr, impReg,
                   impPool, impView, impPending, impDone, impWrites, impUploaded,
                   impManifest, impCommits>>
    /\ UNCHANGED impRun

\* Importer.package is run again: the tree, the pointer manifest and the git
\* history are as they were, the registry as the first run left it.
ImpRunAgain ==
    /\ impPc = "done"
    /\ impRun < MaxImpRuns
    /\ impRun' = impRun + 1
    /\ impPc' = "start"
    /\ impView' = None
    /\ impDone' = {}
    /\ impWrites' = {}
    /\ impUploaded' = {}
    /\ impManifest' = None
    /\ impCommits' = 0
    /\ UNCHANGED <<notImp, impSkipMeta, impExists, impTree, impPtr, impReg,
                   impPool, impPending>>

ImpOps ==
    {"upload", "transfer", "delete"} \X ImpNames
        \X (ImpRegHashes \cup ImpPtrHashes \cup {NoMd5})

ImpNext ==
    \/ ImpMetadata
    \/ ImpPlan
    \/ \E op \in ImpOps : ImpUpload(op)
    \/ \E op \in ImpOps : ImpTransfer(op)
    \/ \E op \in ImpOps : ImpTransferAsserts(op)
    \/ \E op \in ImpOps : ImpDelete(op)
    \/ ImpCommit
    \/ ImpNoCommit
    \/ ImpRunAgain

(***************************************************************************)
(* Exporter.is_binary in full: the extension rules, then the size of the   *)
(* file, then the first 4 KiB of its content.  The confidence chardet      *)
(* reports is a percentage: 80 stands for 0.8.                             *)
(***************************************************************************)
SizeThreshold == 5 * 1024

WindowSize == 4 * 1024

ConfidenceThreshold == 80

Confidences == 0 .. 100

ClsNames == {"a.tar.gz", "a.obscpio", "a.spec", "a.changes", "a.patch",
             "README", ".changes"}

ClsSizes == {0, WindowSize, SizeThreshold - 1, SizeThreshold,
             SizeThreshold + 1, 2 * SizeThreshold}

\* A file: head says whether its first WindowSize bytes decode as UTF-8,
\* tail whether the bytes after them do; a file of at most WindowSize bytes
\* has no tail.
ClsFiles ==
    {f \in [name : ClsNames, size : ClsSizes, head : BOOLEAN, tail : BOOLEAN,
            confidence : Confidences] :
        /\ f.size <= WindowSize => f.tail
        /\ f.size = 0 => f.head}

HasExtensionRule(filename) ==
    Suffix(filename) \in BINARY \cup NON_BINARY_EXCEPTIONS \cup NON_BINARY

content_verdict_inclusive(file) ==
    IF file.size <= SizeThreshold THEN FALSE
    ELSE IF file.head THEN FALSE
    ELSE file.confidence < ConfidenceThreshold

\* The part of is_binary after the extension rules.
content_verdict(file) ==
    IF file.size < SizeThreshold THEN FALSE
    ELSE IF file.head THEN FALSE
    ELSE file.confidence < ConfidenceThreshold

\* is_binary: what it returns, whether it asked for the size of the file and
\* whether it opened the file.
is_binary_file(file) ==
    [binary |-> is_binary(file.name, content_verdict(file)),
     stat   |-> ~HasExtensionRule(file.name),
     read   |-> ~HasExtensionRule(file.name) /\ ~(file.size < SizeThreshold)]

ClsInit ==
    /\ clsFile \in ClsFiles
    /\ clsOut = None
    /\ clsPc = "call"

ClsIdle ==
    /\ clsFile = None
    /\ clsOut = None
    /\ clsPc = "idle"

IsBinary ==
    /\ clsPc = "call"
    /\ clsOut' = is_binary_file(clsFile)
    /\ clsPc' = "returned"
    /\ UNCHANGED <<clsFile, chVars, lnkVars, expVars, stVars, impVars, appVars,
                   prjVars, extVars>>

ClsNext == IsBinary

(***************************************************************************)
(* app.export and app.import_: the checks an invocation makes before it    *)
(* runs the exporter or the importer, and what it changes.                 *)
(***************************************************************************)
\* The status the registry answers to HEAD source/<project>[/<package>].
head_status(is_authorized, is_present) ==
    IF ~is_authorized THEN 401 ELSE IF ~is_present THEN 404 ELSE 200

\* AsyncOBS.authorized and AsyncOBS.exists, of the status answered.
authorized(status) == status # 401

exists(status) == status # 404

AppInputs ==
    {i \in [cmd : {"export", "import"}, scope : {"package", "project"},
            authorized : BOOLEAN, project : BOOLEAN, package : BOOLEAN,
            git : BOOLEAN, storage : {"obs", "lfs"},
            store_status : {200, 401, 404}, lfs : BOOLEAN,
            skip_all_project_meta : BOOLEAN, skip_all_package_meta : BOOLEAN] :
        /\ i.package => (i.project /\ i.scope = "package")
        /\ i.storage = "obs" => i.lfs
        /\ i.storage = "lfs" => i.store_status = 200}

\* The target of the invocation is there: the package if one is named, the
\* project otherwise.
TargetPresent(i) == IF i.scope = "package" THEN i.package ELSE i.project

TargetStatus(i) == head_status(i.authorized, TargetPresent(i))

\* A write request is carried out if the caller is authorized and the project
\* is there, from the start or since this invocation put its metadata.
Accepted(i, sent) == i.authorized /\ (i.project \/ "project" \in sent)

AppInit ==
    /\ appIn \in AppInputs
    /\ appPc = "start"
    /\ appMutated = {}
    /\ appSent = {}

AppIdle ==
    /\ appIn = None
    /\ appPc = "idle"
    /\ appMutated = {}
    /\ appSent = {}

notApp == <<chVars, lnkVars, expVars, stVars, impVars, clsVars, prjVars,
            extVars>>

\* export: obs.authorized, or sys.exit(-1).
ExportAuthorized ==
    /\ appPc = "start"
    /\ appIn.cmd = "export"
    /\ appPc' = IF authorized(TargetStatus(appIn)) THEN "authorized" ELSE "exited"
    /\ UNCHANGED <<notApp, appIn, appMutated, appSent>>

\* export: obs.exists, or sys.exit(-1).
ExportExists ==
    /\ appPc = "authorized"
    /\ appIn.cmd = "export"
    /\ appPc' = IF exists(TargetStatus(appIn)) THEN "checked" ELSE "exited"
    /\ UNCHANGED <<notApp, appIn, appMutated, appSent>>

\* export: git.create.
ExportGitCreate ==
    /\ appPc = "checked"
    /\ appIn.cmd = "export"
    /\ appMutated' = appMutated \cup {"tree"}
    /\ appPc' = "storage"
    /\ UNCHANGED <<notApp, appIn, appSent>>

\* export: storage_obs.create and StorageOBS, or StorageLFS and its
\* is_installed test.
ExportStorage ==
    /\ appPc = "storage"
    /\ appIn.cmd = "export"
    /\ IF appIn.storage = "obs"
       THEN /\ appMutated' = appMutated \cup
                   (IF appIn.store_status = 404 THEN {"store"} ELSE {})
            /\ appPc' = "run"
       ELSE /\ appMutated' = appMutated
            /\ appPc' = IF appIn.lfs THEN "run" ELSE "exited"
    /\ UNCHANGED <<notApp, appIn, appSent>>

\* export: exporter.package or exporter.project, which write the metadata and
\* the files into the tree, and the end of export.
ExportRun ==
    /\ appPc = "run"
    /\ appIn.cmd = "export"
    /\ appMutated' = appMutated \cup {"tree"}
    /\ appPc' = "done"
    /\ UNCHANGED <<notApp, appIn, appSent>>

\* import_: git.exists, or sys.exit(-1); git.analyze_history.
ImportGitExists ==
    /\ appPc = "start"
    /\ appIn.cmd = "import"
    /\ appPc' = IF appIn.git THEN "storage" ELSE "exited"
    /\ UNCHANGED <<notApp, appIn, appMutated, appSent>>

\* import_: storage_obs.authorized and storage_obs.exists, or sys.exit(-1),
\* and StorageOBS; or StorageLFS and its is_installed test.
ImportStorage ==
    /\ appPc = "storage"
    /\ appIn.cmd = "import"
    /\ appPc' = IF appIn.storage = "obs"
                THEN IF authorized(appIn.store_status) /\ exists(appIn.store_status)
                     THEN "run" ELSE "exited"
                ELSE IF appIn.lfs THEN "run" ELSE "exited"
    /\ UNCHANGED <<notApp, appIn, appMutated, appSent>>

\* import_ and Importer.project: importer.project_metadata, unless the
\* project exists (and, for a project, skip_all_project_meta is set; for a
\* package, or it is set).
ImportProjectMetadata ==
    /\ appPc = "run"
    /\ appIn.cmd = "import"
    /\ LET there == exists(head_status(appIn.authorized, appIn.project))
           skip  == IF appIn.scope = "package"
                    THEN there \/ appIn.skip_all_project_meta
                    ELSE there /\ appIn.skip_all_project_meta
       IN  /\ appSent' = IF skip THEN appSent ELSE appSent \cup {"project"}
           /\ appMutated' = IF ~skip /\ appIn.authorized
                            THEN appMutated \cup {"registry"} ELSE appMutated
    /\ appPc' = "packages"
    /\ UNCHANGED <<notApp, appIn>>

\* Importer.package, of the package named or of the first package of the
\* tree: importer.package_metadata unless the package exists and
\* skip_all_package_meta is set; and the end of import_.
ImportPackage ==
    /\ appPc = "packages"
    /\ appIn.cmd = "import"
    /\ LET there == exists(head_status(appIn.authorized, appIn.package))
           skip  == there /\ appIn.skip_all_package_meta
       IN  /\ appSent' = IF skip THEN appSent ELSE appSent \cup {"package"}
           /\ appMutated' = IF ~skip /\ Accepted(appIn, appSent)
                            THEN appMutated \cup {"registry"} ELSE appMutated
    /\ appPc' = "done"
    /\ UNCHANGED <<notApp, appIn>>

AppNext ==
    \/ ExportAuthorized
    \/ ExportExists
    \/ ExportGitCreate
    \/ ExportStorage
    \/ ExportRun
    \/ ImportGitExists
    \/ ImportStorage
    \/ ImportProjectMetadata
    \/ ImportPackage

(***************************************************************************)
(* Exporter.project: the packages of the registry are exported and the     *)
(* packages only the tree holds are deleted, all in one gather, and then   *)
(* the store is committed.  A package export is seen here in two steps,    *)
(* its synchronisation with the registry and its store_files.              *)
(***************************************************************************)
MaxPackages == 3

PrjNameList == <<"pkg-a", "pkg-b", "pkg-c", "pkg-d">>

PrjPackages == {PrjNameList[i] : i \in 1..MaxPackages}

PrjHashes == {"h1", "h2"}

\* The md5 of the binary file of a package that holds one.
PrjMd5(p) == <<"md5", prjHash[p]>>

PrjInit ==
    /\ prjObs \in SUBSET PrjPackages
    /\ prjGit \in SUBSET PrjPackages
    /\ prjBinary \in SUBSET prjObs
    /\ prjPc = "start"
    /\ prjView = None
    /\ prjPending = {}
    /\ prjDone = {}
    /\ prjCalls = <<>>
    /\ prjHash \in [prjBinary -> PrjHashes]
    /\ prjDownloaded = {}
    /\ prjUploads = {}
    /\ stIndex = {}
    /\ stSync = TRUE
    /\ stListing = {}
    /\ stIndexAtCall = {}
    /\ stUploads = {}
    /\ stCommits = <<>>

PrjIdle ==
    /\ prjObs = {}
    /\ prjGit = {}
    /\ prjBinary = {}
    /\ prjPc = "idle"
    /\ prjView = None
    /\ prjPending = {}
    /\ prjDone = {}
    /\ prjCalls = <<>>
    /\ prjHash = <<>>
    /\ prjDownloaded = {}
    /\ prjUploads = {}

notPrj == <<chVars, lnkVars, expVars, impVars, clsVars, appVars, extVars>>

\* Exporter.project up to its gather: both package sets are read, the project
\* metadata is written, one awaitable per package is scheduled.
PrjPlan ==
    /\ prjPc = "start"
    /\ LET packages_obs    == prjObs
           packages_git    == prjGit
           packages_delete == packages_git \ packages_obs
       IN  /\ prjView' = [packages_obs |-> packages_obs,
                          packages_git |-> packages_git,
                          packages_delete |-> packages_delete]
           /\ prjPending' = {<<"package", p>> : p \in packages_obs}
                                \cup {<<"delete", p>> : p \in packages_delete}
    /\ prjPc' = "gather"
    /\ UNCHANGED <<notPrj, prjObs, prjGit, prjBinary, prjDone, prjCalls, prjHash,
                   prjDownloaded, prjUploads, stVars>>

\* Exporter.package of one package up to store_files: its directory is made,
\* its metadata and files are downloaded; the file to store is downloaded
\* unless its hash is in the index.
PrjPackageSync(p) ==
    /\ prjPc = "gather"
    /\ <<"package", p>> \in prjPending
    /\ prjGit' = prjGit \cup {p}
    /\ prjDownloaded' =
           IF p \in prjBinary /\ PrjMd5(p) \notin stIndex
           THEN prjDownloaded \cup {p} ELSE prjDownloaded
    /\ prjPending' = (prjPending \ {<<"package", p>>}) \cup {<<"store", p>>}
    /\ UNCHANGED <<notPrj, prjObs, prjBinary, prjPc, prjView, prjDone, prjCalls,
                   prjHash, prjUploads, stVars>>

\* store_files of one package, and the return of Exporter.package: the file
\* is stored when the tree holds it, which it does when it was downloaded.
PrjPackageStore(p) ==
    /\ prjPc = "gather"
    /\ <<"store", p>> \in prjPending
    /\ IF p \in prjDownloaded
       THEN /\ stIndex' = stIndex \cup {PrjMd5(p)}
            /\ stSync' = FALSE
            /\ stUploads' = stUploads \cup
                   {[key |-> PrjMd5(p), content |-> PrjMd5(p), run |-> 1]}
            /\ prjUploads' = prjUploads \cup {<<p, PrjMd5(p)>>}
       ELSE UNCHANGED <<stIndex, stSync, stUploads, prjUploads>>
    /\ prjPending' = prjPending \ {<<"store", p>>}
    /\ prjDone' = prjDone \cup {<<"package", p>>}
    /\ UNCHANGED <<notPrj, prjObs, prjGit, prjBinary, prjPc, prjView, prjCalls,
                   prjHash, prjDownloaded, stListing, stIndexAtCall, stCommits>>

\* Git.delete of one package of the tree.
PrjDelete(p) ==
    /\ prjPc = "gather"
    /\ <<"delete", p>> \in prjPending
    /\ prjGit' = prjGit \ {p}
    /\ prjPending' = prjPending \ {<<"delete", p>>}
    /\ prjDone' = prjDone \cup {<<"delete", p>>}
    /\ UNCHANGED <<notPrj, prjObs, prjBinary, prjPc, prjView, prjCalls, prjHash,
                   prjDownloaded, prjUploads, stVars>>

\* StorageOBS.commit as Exporter.project calls it.
PrjStorageCommit ==
    /\ prjCalls' = Append(prjCalls, [done |-> prjDone, pending |-> prjPending])
    /\ IF stSync
       THEN UNCHANGED <<stCommits, stListing, stSync>>
       ELSE /\ stCommits' = Append(stCommits, stIndex)
            /\ stListing' = stIndex
            /\ stSync' = TRUE
    /\ UNCHANGED <<notPrj, prjObs, prjGit, prjBinary, prjView, prjPending, prjDone,
                   prjHash, prjDownloaded, prjUploads, stIndex, stIndexAtCall,
                   stUploads>>

PrjCommit_before_gather_returns ==
    /\ prjPc = "gather"
    /\ prjPc' = "done"
    /\ PrjStorageCommit

\* The gather has returned: Exporter.project commits the store and returns.
PrjCommit ==
    /\ prjPc = "gather"
    /\ prjPending = {}
    /\ prjPc' = "done"
    /\ PrjStorageCommit

PrjNext ==
    \/ PrjPlan
    \/ \E p \in PrjPackages : PrjPackageSync(p)
    \/ \E p \in PrjPackages : PrjPackageStore(p)
    \/ \E p \in PrjPackages : PrjDelete(p)
    \/ PrjCommit

(***************************************************************************)
(* The pointer manifest as a text file: StorageOBS.store_files writes it,   *)
(* Importer.package reads it.  A filename and a hash are texts of           *)
(* characters.                                                              *)
(***************************************************************************)
TAB == "\t"

\* The characters str.split() splits on, of those a line can hold.
Whitespace == {" ", TAB, NL}

\* The characters of the names and hashes below, in code point order.
Alphabet == <<TAB, NL, " ", "1", "2", "a", "b", "h">>

Ord(c) == CHOOSE i \in 1..Len(Alphabet) : Alphabet[i] = c

\* str.__lt__
RECURSIVE TextLess(_, _)
TextLess(a, b) ==
    IF a = <<>> THEN b # <<>>
    ELSE IF b = <<>> THEN FALSE
    ELSE IF Head(a) = Head(b) THEN TextLess(Tail(a), Tail(b))
    ELSE Ord(Head(a)) < Ord(Head(b))

\* tuple.__lt__ on (filename, md5)
PairLess(x, y) ==
    \/ TextLess(x[1], y[1])
    \/ x[1] = y[1] /\ TextLess(x[2], y[2])

MaxMfRuns == 2

MfNames == {<<"a">>, <<"b">>, <<"a", " ", "b">>}

MfHashes == {<<"h", "1">>, <<"h", "2">>}

\* The lists of (filename, md5) with unique filenames.
MfFileSets ==
    {S \in SUBSET (MfNames \X MfHashes) :
        \A x \in S : \A y \in S : x[1] = y[1] => x = y}

\* sorted(files_md5)
RECURSIVE sorted(_)
sorted(files_md5) ==
    IF files_md5 = {} THEN <<>>
    ELSE LET first == CHOOSE x \in files_md5 :
                          \A y \in files_md5 \ {x} : PairLess(x, y)
         IN  <<first>> \o sorted(files_md5 \ {first})

\* One line of the manifest.
manifest_line(e) == e[1] \o <<TAB, TAB>> \o e[2] \o <<NL>>

RECURSIVE Concat(_)
Concat(lines) ==
    IF lines = <<>> THEN <<>> ELSE Head(lines) \o Concat(Tail(lines))

\* f.writelines(... for filename, md5 in sorted(files_md5))
writelines(files_md5) ==
    LET list == sorted(files_md5)
    IN  Concat([i \in 1..Len(list) |-> manifest_line(list[i])])

\* f.readlines(): the lines of the text, each with its line break.
RECURSIVE readlines_acc(_, _, _)
readlines_acc(text, line, lines) ==
    IF text = <<>>
    THEN IF line = <<>> THEN lines ELSE Append(lines, line)
    ELSE IF Head(text) = NL
         THEN readlines_acc(Tail(text), <<>>,
                            Append(lines, Append(line, NL)))
         ELSE readlines_acc(Tail(text), Append(line, Head(text)), lines)

readlines(text) == readlines_acc(text, <<>>, <<>>)

\* str.split(): the maximal runs of characters that are not whitespace.
RECURSIVE split_acc(_, _, _)
split_acc(line, word, words) ==
    IF line = <<>>
    THEN IF word = <<>> THEN words ELSE Append(words, word)
    ELSE IF Head(line) \in Whitespace
         THEN split_acc(Tail(line), <<>>,
                        IF word = <<>> THEN words ELSE Append(words, word))
         ELSE split_acc(Tail(line), Append(word, Head(line)), words)

split(line) == split_acc(line, <<>>, <<>>)

\* {tuple(line.split()) for line in f.readlines()}
manifest_parse(text) ==
    LET lines == readlines(text)
    IN  {split(lines[i]) : i \in 1..Len(lines)}

MfInit ==
    /\ mfFiles = {}
    /\ mfText = <<>>
    /\ mfParsed = {}
    /\ mfPc = "absent"
    /\ mfRun = 0

MfIdle ==
    /\ mfFiles = {}
    /\ mfText = <<>>
    /\ mfParsed = {}
    /\ mfPc = "idle"
    /\ mfRun = 0

\* The last statement of StorageOBS.store_files: the file is opened for
\* writing, which empties it, and the lines are written.
MfStoreFiles(files_md5) ==
    /\ mfPc \in {"absent", "written", "parsed"}
    /\ mfRun < MaxMfRuns
    /\ mfRun' = mfRun + 1
    /\ mfFiles' = files_md5
    /\ mfText' = writelines(files_md5)
    /\ mfPc' = "written"
    /\ UNCHANGED <<notMf, mfParsed>>

\* Importer.package reads the pointer manifest; a manifest that does not
\* exist reads as the empty set.
MfImporterRead ==
    /\ mfPc \in {"absent", "written"}
    /\ mfParsed' = IF mfPc = "absent" THEN {} ELSE manifest_parse(mfText)
    /\ mfPc' = "parsed"
    /\ UNCHANGED <<notMf, mfFiles, mfText, mfRun>>

MfNext ==
    \/ \E files_md5 \in MfFileSets : MfStoreFiles(files_md5)
    \/ MfImporterRead

(***************************************************************************)
(* StorageLFS: the store kept in the tree with git lfs.  A filename, a     *)
(* path and a pattern are texts of characters.                             *)
(***************************************************************************)
\* fnmatch.fnmatch for patterns of literal characters and "*".
RECURSIVE fnmatch(_, _)
fnmatch(name, pat) ==
    IF pat = <<>> THEN name = <<>>
    ELSE IF Head(pat) = "*"
         THEN \/ fnmatch(name, Tail(pat))
              \/ name # <<>> /\ fnmatch(Tail(name), pat)
         ELSE /\ name # <<>>
              /\ Head(name) = Head(pat)
              /\ fnmatch(Tail(name), Tail(pat))

MaxLfsCalls == 3

LfsPackages == {<<"p">>, <<"q">>}

LfsNames == {<<"a", ".", "g", "z">>, <<"b">>}

\* The extensions is_installed tracks, one standing for the members of
\* Exporter.BINARY | Exporter.NON_BINARY_EXCEPTIONS.
LfsExtensions == {<<".", "g", "z">>}

\* package_path / filename, relative to the repository.
LfsPath(package, filename) == package \o <<"/">> \o filename

\* The patterns git lfs track can list when the StorageLFS is constructed.
LfsPatterns ==
    {<<"*">> \o ext : ext \in LfsExtensions}
        \cup {LfsPath(<<"p">>, <<"b">>)}

\* The filename lists of a store_files call: no filename twice.
LfsFileLists ==
    {list \in SeqsUpTo(LfsNames, 2) :
        \A i \in 1..Len(list) : \A j \in 1..Len(list) :
            list[i] = list[j] => i = j}

LfsNoCall == [package |-> <<>>, files |-> <<>>]

LfsCallArgs == [package : LfsPackages, files : LfsFileLists]

\* StorageLFS._tracked: the filename store_files passes, which is the bare
\* filename, is matched against the patterns.
_tracked(tracked, filename) ==
    \E track \in tracked : fnmatch(filename, track)

\* The loop of StorageLFS.store_files from the i-th file on: st holds the
\* tracked set and the commands run so far.
RECURSIVE store_files_from(_, _, _, _)
store_files_from(st, package, files, i) ==
    IF i > Len(files) THEN st
    ELSE IF _tracked(st.tracked, files[i])
         THEN store_files_from(st, package, files, i + 1)
         ELSE store_files_from(
                  [tracked |-> st.tracked \cup {LfsPath(package, files[i])},
                   issued  |-> Append(st.issued, LfsPath(package, files[i]))],
                  package, files, i + 1)

\* StorageLFS.__init__: tracked holds what git lfs track lists.
LfsInit ==
    /\ lfsTracked \in SUBSET LfsPatterns
    /\ lfsBefore = lfsTracked
    /\ lfsCall = LfsNoCall
    /\ lfsPrev = LfsNoCall
    /\ lfsIssued = <<>>
    /\ lfsPc = "new"
    /\ lfsCalls = 0

LfsIdle ==
    /\ lfsTracked = {}
    /\ lfsBefore = {}
    /\ lfsCall = LfsNoCall
    /\ lfsPrev = LfsNoCall
    /\ lfsIssued = <<>>
    /\ lfsPc = "idle"
    /\ lfsCalls = 0

\* StorageLFS.is_installed, git lfs being installed: every default
\* extension is tracked with _store, whether it is tracked already or not.
LfsIsInstalled ==
    /\ lfsPc = "new"
    /\ lfsTracked' = lfsTracked \cup {<<"*">> \o ext : ext \in LfsExtensions}
    /\ lfsPc' = "ready"
    /\ UNCHANGED <<notLfs, lfsBefore, lfsCall, lfsPrev, lfsIssued, lfsCalls>>

\* One call of StorageLFS.store_files.
LfsStoreFiles(call) ==
    /\ lfsPc \in {"ready", "stored"}
    /\ lfsCalls < MaxLfsCalls
    /\ LET end == store_files_from([tracked |-> lfsTracked, issued |-> <<>>],
                                   call.package, call.files, 1)
       IN  /\ lfsTracked' = end.tracked
           /\ lfsIssued' = end.issued
    /\ lfsBefore' = lfsTracked
    /\ lfsPrev' = lfsCall
    /\ lfsCall' = call
    /\ lfsCalls' = lfsCalls + 1
    /\ lfsPc' = "stored"
    /\ UNCHANGED notLfs

LfsNext ==
    \/ LfsIsInstalled
    \/ \E call \in LfsCallArgs : LfsStoreFiles(call)

(***************************************************************************)
(* Git.analyze_history and Git.last_revision_to.  A commit is its oid, the *)
(* number of its parents and the packages under which its diff to its      *)
(* parent has a path.  The oid of a commit is its number counted from the  *)
(* root; the walk yields a commit before its parents, so the oids of a     *)
(* walk decrease.                                                          *)
(***************************************************************************)
MaxCommits == 3

HistPackages == {"pkg-a", "pkg-b"}

\* The walks of n commits from a tip: the last commit yielded is a root.
HistWalks(n) ==
    {walk \in [1..n -> [oid : 1..n, parents : 0..2,
                        touched : SUBSET HistPackages]] :
        /\ \A i \in 1..n : walk[i].oid = n - i + 1
        /\ walk[n].parents = 0
        /\ \A i \in 1..(n - 1) : walk[i].parents \in {1, 2}}

\* Git._patches: the commits whose patches are yielded are those with one
\* parent or none.
yields_patches(commit) == commit.parents \in {0, 1}

setdefault_overwrites(entries, package, record) ==
    [q \in DOMAIN entries \cup {package} |->
        IF q = package THEN record ELSE entries[q]]

\* dict.setdefault
setdefault(entries, package, record) ==
    IF package \in DOMAIN entries THEN entries
    ELSE [q \in DOMAIN entries \cup {package} |->
             IF q = package THEN record ELSE entries[q]]

\* The body of the loop of analyze_history for the patches of one commit
\* that lie under the packages in todo.
RECURSIVE analyze_patches(_, _, _)
analyze_patches(entries, commit, todo) ==
    IF todo = {} THEN entries
    ELSE LET package == CHOOSE q \in todo : TRUE
         IN  analyze_patches(setdefault(entries, package, commit.oid),
                             commit, todo \ {package})

HistInit ==
    /\ \E n \in 1..MaxCommits : histWalk \in HistWalks(n)
    /\ histTree \in SUBSET HistPackages
    /\ histPos = 1
    /\ first_entry = <<>>
    /\ histOut = None
    /\ histPc = "walk"

HistIdle ==
    /\ histWalk = <<>>
    /\ histTree = {}
    /\ histPos = 0
    /\ first_entry = <<>>
    /\ histOut = None
    /\ histPc = "idle"

\* One commit of the walk in analyze_history: its patches are looked at when
\* _patches yields them, and only those under a package of the tree.
AnalyzeCommit ==
    /\ histPc = "walk"
    /\ histPos <= Len(histWalk)
    /\ LET commit == histWalk[histPos]
       IN  first_entry' =
               IF yields_patches(commit)
               THEN analyze_patches(first_entry, commit,
                                    histTree \cap commit.touched)
               ELSE first_entry
    /\ histPos' = histPos + 1
    /\ UNCHANGED <<notHist, histWalk, histTree, histOut, histPc>>

\* The walk is exhausted: analyze_history returns.
AnalyzeReturns ==
    /\ histPc = "walk"
    /\ histPos > Len(histWalk)
    /\ histPc' = "analyzed"
    /\ UNCHANGED <<notHist, histWalk, histTree, histPos, first_entry, histOut>>

\* Git.last_revision_to: the entry of the package, KeyError when it has none.
LastRevisionTo(package) ==
    /\ histPc = "analyzed"
    /\ histOut' = [package |-> package,
                   record  |-> IF package \in DOMAIN first_entry
                               THEN first_entry[package] ELSE 0,
                   raised  |-> package \notin DOMAIN first_entry]
    /\ histPc' = "returned"
    /\ UNCHANGED <<notHist, histWalk, histTree, histPos, first_entry>>

HistNext ==
    \/ AnalyzeCommit
    \/ AnalyzeReturns
    \/ \E package \in HistPackages : LastRevisionTo(package)

(***************************************************************************)
(* Importer.project: the packages of the tree are imported in groups, the  *)
(* packages of the registry that the tree does not hold are deleted.       *)
(***************************************************************************)
MaxIpPackages == 5

\* group_size
GroupSize == 4

IpNameList == <<"pkg-a", "pkg-b", "pkg-c", "pkg-d", "pkg-e", "pkg-f", "pkg-g">>

IpPackages == {IpNameList[i] : i \in 1..MaxIpPackages}

\* A package of the registry that the tree never holds.
IpGone == "pkg-old"

\* The packages of a set in the order of their names.
RECURSIVE IpListed(_, _)
IpListed(packages, i) ==
    IF i > Len(IpNameList) THEN <<>>
    ELSE (IF IpNameList[i] \in packages THEN <<IpNameList[i]>> ELSE <<>>)
             \o IpListed(packages, i + 1)

\* sorted(packages_git, key=has a _link): the packages without a _link, then
\* those with one; the sort is stable.
sorted_links_last(packages, links) ==
    IpListed(packages \ links, 1) \o IpListed(packages \cap links, 1)

\* The number of groups of a list.
GroupCount(list) == (Len(list) + GroupSize - 1) \div GroupSize

\* packages_git[i : i + group_size] for the k-th group.
GroupOf(list, k) ==
    LET from == (k - 1) * GroupSize + 1
        to   == IF k * GroupSize < Len(list) THEN k * GroupSize ELSE Len(list)
    IN  [i \in 1..(to - from + 1) |-> list[from + i - 1]]

Range(list) == {list[i] : i \in 1..Len(list)}

IpInit ==
    /\ ipMeta \in BOOLEAN
    /\ ipGit \in SUBSET IpPackages
    /\ ipLinks \in SUBSET ipGit
    /\ ipObs \in SUBSET {IpGone, IpNameList[1]}
    /\ ipPc = "start"
    /\ ipView = None
    /\ ipGroup = 0
    /\ ipPending = <<>>
    /\ ipStarted = {}
    /\ ipDone = {}

IpIdle ==
    /\ ipMeta = FALSE
    /\ ipGit = {}
    /\ ipLinks = {}
    /\ ipObs = {}
    /\ ipPc = "idle"
    /\ ipView = None
    /\ ipGroup = 0
    /\ ipPending = <<>>
    /\ ipStarted = {}
    /\ ipDone = {}

\* Importer.project up to its first gather: the project metadata is uploaded
\* unless the project exists and is to be skipped, the package sets are
\* read, the packages of the tree are sorted and grouped.
IpPlan ==
    /\ ipPc = "start"
    /\ ipDone' = IF ipMeta THEN {<<"metadata", "project">>} ELSE {}
    /\ ipView' = [packages_delete |-> ipObs \ ipGit,
                  packages_git    |-> sorted_links_last(ipGit, ipLinks)]
    /\ ipGroup' = 0
    /\ ipPc' = "groups"
    /\ UNCHANGED <<notIp, ipMeta, ipGit, ipLinks, ipObs, ipPending, ipStarted>>

\* The gather of the next group is called: one task for each package of the
\* group, in the order of the list.
IpGatherGroup ==
    /\ ipPc = "groups"
    /\ ipPending = <<>>
    /\ \A p \in ipStarted : <<"package", p>> \in ipDone
    /\ ipGroup < GroupCount(ipView.packages_git)
    /\ ipGroup' = ipGroup + 1
    /\ ipPending' = GroupOf(ipView.packages_git, ipGroup + 1)
    /\ UNCHANGED <<notIp, ipMeta, ipGit, ipLinks, ipObs, ipPc, ipView,
                   ipStarted, ipDone>>

\* The task of the next package of the group runs to its first request.
IpPackageStart ==
    /\ ipPc = "groups"
    /\ ipPending # <<>>
    /\ ipStarted' = ipStarted \cup {Head(ipPending)}
    /\ ipPending' = Tail(ipPending)
    /\ UNCHANGED <<notIp, ipMeta, ipGit, ipLinks, ipObs, ipPc, ipView,
                   ipGroup, ipDone>>

\* Importer.package of one package of the group returns; every task of the
\* group has begun by then, since each awaits a request at once.
IpPackageDone(p) ==
    /\ ipPc = "groups"
    /\ ipPending = <<>>
    /\ p \in ipStarted
    /\ <<"package", p>> \notin ipDone
    /\ ipDone' = ipDone \cup {<<"package", p>>}
    /\ ipObs' = ipObs \cup {p}
    /\ UNCHANGED <<notIp, ipMeta, ipGit, ipLinks, ipPc, ipView, ipGroup,
                   ipPending, ipStarted>>

\* The gather of the last group has returned: the gather of the deletions is
\* called.
IpGatherDelete ==
    /\ ipPc = "groups"
    /\ ipPending = <<>>
    /\ \A p \in ipStarted : <<"package", p>> \in ipDone
    /\ ipGroup = GroupCount(ipView.packages_git)
    /\ ipPc' = "deleting"
    /\ UNCHANGED <<notIp, ipMeta, ipGit, ipLinks, ipObs, ipView, ipGroup,
                   ipPending, ipStarted, ipDone>>

\* AsyncOBS.delete of one package of packages_delete.
IpDelete(p) ==
    /\ ipPc = "deleting"
    /\ p \in ipView.packages_delete
    /\ <<"delete", p>> \notin ipDone
    /\ ipDone' = ipDone \cup {<<"delete", p>>}
    /\ ipObs' = ipObs \ {p}
    /\ UNCHANGED <<notIp, ipMeta, ipGit, ipLinks, ipPc, ipView, ipGroup,
                   ipPending, ipStarted>>

\* The gather of the deletions has returned, and Importer.project with it.
IpReturns ==
    /\ ipPc = "deleting"
    /\ \A p \in ipView.packages_delete : <<"delete", p>> \in ipDone
    /\ ipPc' = "done"
    /\ UNCHANGED <<notIp, ipMeta, ipGit, ipLinks, ipObs, ipView, ipGroup,
                   ipPending, ipStarted, ipDone>>

IpNext ==
    \/ IpPlan
    \/ IpGatherGroup
    \/ IpPackageStart
    \/ \E p \in IpPackages : IpPackageDone(p)
    \/ IpGatherDelete
    \/ \E p \in IpPackages \cup {IpGone} : IpDelete(p)
    \/ IpReturns

(***************************************************************************)
(* Specifications.                                                         *)
(***************************************************************************)
\* The groups of the smaller specifications, idle.
ExtIdle == MfIdle /\ LfsIdle /\ HistIdle /\ IpIdle

RestIdle == ClsIdle /\ AppIdle /\ PrjIdle /\ ExtIdle

CoreIdle ==
    ChIdle /\ LnkIdle /\ ExpIdle /\ StIdle /\ ImpIdle /\ ClsIdle /\ AppIdle
        /\ PrjIdle

InitChanges == ChInit /\ LnkIdle /\ ExpIdle /\ StIdle /\ ImpIdle /\ RestIdle

SpecChanges == InitChanges /\ [][ChNext]_vars

InitLink == LnkInit /\ ChIdle /\ ExpIdle /\ StIdle /\ ImpIdle /\ RestIdle

SpecLink == InitLink /\ [][LnkNext]_vars

InitExport == ExpInit /\ ExpPlainPackage /\ ChIdle /\ ImpIdle /\ RestIdle

SpecExport == InitExport /\ [][ExpNext]_vars

InitExportLink == ExpLinkInit /\ ChIdle /\ ImpIdle /\ RestIdle

SpecExportLink == InitExportLink /\ [][ExpNext]_vars

SpecExportFault == InitExport /\ [][ExpFaultNext]_vars

InitImport == ImpInit /\ StInitImport /\ ChIdle /\ LnkIdle /\ ExpIdle /\ RestIdle

SpecImport == InitImport /\ [][ImpNext]_vars

InitClassify ==
    ClsInit /\ ChIdle /\ LnkIdle /\ ExpIdle /\ StIdle /\ ImpIdle /\ AppIdle
        /\ PrjIdle /\ ExtIdle

InitApp ==
    AppInit /\ ChIdle /\ LnkIdle /\ ExpIdle /\ StIdle /\ ImpIdle /\ ClsIdle
        /\ PrjIdle /\ ExtIdle

InitProject ==
    PrjInit /\ ChIdle /\ LnkIdle /\ ExpIdle /\ ImpIdle /\ ClsIdle /\ AppIdle
        /\ ExtIdle

SpecProject == InitProject /\ [][PrjNext]_vars

SpecApp == InitApp /\ [][AppNext]_vars

SpecClassify == InitClassify /\ [][ClsNext]_vars

InitManifest == MfInit /\ CoreIdle /\ LfsIdle /\ HistIdle /\ IpIdle

SpecManifest == InitManifest /\ [][MfNext]_vars

InitLFS == LfsInit /\ CoreIdle /\ MfIdle /\ HistIdle /\ IpIdle

SpecLFS == InitLFS /\ [][LfsNext]_vars

InitHistory == HistInit /\ CoreIdle /\ MfIdle /\ LfsIdle /\ IpIdle

SpecHistory == InitHistory /\ [][HistNext]_vars

InitImportProject == IpInit /\ CoreIdle /\ MfIdle /\ LfsIdle /\ HistIdle

SpecImportProject == InitImportProject /\ [][IpNext]_vars

(***************************************************************************)
(* Claims about Importer.prepend_changes (SpecChanges).                    *)
(***************************************************************************)

(***************************************************************************)
(* C7: the content prepend_changes produces is a separator line of exactly *)
(* 67 '-' characters, then a line with the formatted date and              *)
(* 'author <email>', then (after an empty line) a line ending in           *)
(* 'Last git synchronization: <commit id>', then an empty line, followed   *)
(* by the original bytes unmodified: they are a suffix of the result and   *)
(* nothing before them depends on them.                                    *)
(***************************************************************************)
C7_ChangelogStamping ==
    chPc = "stamped" =>
        LET head == SubSeq(chOut, 1, Len(chOut) - Len(chRaw))
        IN  /\ IsSuffixOf(chRaw, chOut)
            /\ Len(chOut) >= SeparatorWidth + 1
            /\ \A i \in 1..SeparatorWidth : chOut[i] = "-"
            /\ chOut[SeparatorWidth + 1] = NL
            /\ LineOf(head, 1) = Repeat("-", SeparatorWidth)
            /\ LET line == LineOf(head, 2)
               IN  /\ SubSeq(line, 1, Len(strftime(chRec.commit_date)))
                          = strftime(chRec.commit_date)
                   /\ IsSuffixOf(<<chRec.author, " ", "<", chRec.email, ">">>, line)
            /\ LineOf(head, 3) = <<>>
            /\ IsSuffixOf(<<"Last git synchronization: ", chRec.commit_hash>>,
                          LineOf(head, 4))
            /\ LineOf(head, 5) = <<>>
            /\ LineOf(head, 6) = <<>>
            /\ BreakAt(head, 5, 1) = Len(head)

C7_Witness ==
    /\ chPc = "stamped"
    /\ Len(chRaw) = MaxRawLen
    /\ chRaw[1] = "-"
    /\ chRaw[2] = NL

(***************************************************************************)
(* Claims about AsyncOBS.files_md5_revision (SpecLink).                    *)
(***************************************************************************)
\* The listing holds a _link entry.
LnkLinked == LinkEntry \in lnkPkg.entries

\* The _link document names a project other than the package's own.
LnkCrosses == LnkLinked /\ lnkPkg.link_project = OtherProject

(***************************************************************************)
(* C9: under policy 'never', a package whose _link names another project   *)
(* yields the empty FileSet, no revision and a reported error; a package   *)
(* whose link stays in its own project, or that has no link, yields its    *)
(* own unexpanded listing at its own revision.                             *)
(***************************************************************************)
C9_LinkNever ==
    (lnkPc = "returned" /\ lnkPolicy = "never") =>
        IF LnkCrosses
        THEN lnkOut.files = {} /\ lnkOut.revision = None /\ lnkOut.error
        ELSE /\ lnkOut.files = lnkPkg.entries
             /\ lnkOut.revision = lnkPkg.rev
             /\ ~lnkOut.error

C9_Witness ==
    /\ lnkPc = "returned"
    /\ lnkPolicy = "never"
    /\ LnkCrosses
    /\ Cardinality(lnkPkg.entries) = MaxListing + 1
    /\ lnkOut.error

(***************************************************************************)
(* C10: for a linked package, policy 'always' yields the FileSet listed at *)
(* the link's target revision (linkinfo xsrcmd5) whether or not the link   *)
(* crosses projects; policy 'auto' yields that same FileSet and revision   *)
(* exactly when the link names another project, and otherwise the          *)
(* unexpanded listing at the package's own revision.                       *)
(***************************************************************************)
C10_LinkAlwaysAuto ==
    (lnkPc = "returned" /\ LnkLinked) =>
        LET expanded == /\ lnkOut.files = lnkPkg.expanded
                        /\ lnkOut.revision = lnkPkg.xsrcmd5
            local    == /\ lnkOut.files = lnkPkg.entries
                        /\ lnkOut.revision = lnkPkg.rev
        IN  /\ lnkPolicy = "always" => expanded
            /\ lnkPolicy = "auto" => IF LnkCrosses THEN expanded ELSE local
            /\ lnkPolicy = "auto" => (expanded <=> LnkCrosses)

C10_Witness ==
    /\ lnkPc = "returned"
    /\ lnkPolicy = "auto"
    /\ LnkLinked
    /\ lnkPkg.link_project = OwnProject
    /\ lnkPkg.expanded # {}
    /\ lnkOut.files = lnkPkg.entries

(***************************************************************************)
(* Claims about Exporter.package and StorageOBS.store_files (SpecExport).  *)
(***************************************************************************)
ExpPlanned == expPc \in {"sync", "storing", "removing", "exported", "finished"}

ExpSynced == expPc \in {"storing", "removing", "exported", "finished"}

\* The hash the listing gives filename f, None when it does not list it.
HashIn(files_md5, f) ==
    IF f \in Names(files_md5)
    THEN (CHOOSE e \in files_md5 : e[1] = f)[2]
    ELSE None

(***************************************************************************)
(* C2: no upload to the content store is issued for a (filename, hash)     *)
(* passed to store_files whose hash is in the index when store_files is    *)
(* called, whatever the tree holds.                                        *)
(***************************************************************************)
C2_NoUploadOfIndexedHash ==
    ExpSynced =>
        \A u \in stUploads : u.run = expRun => u.key \notin stIndexAtCall

(***************************************************************************)
(* C3: the filenames Exporter.package downloads are exactly those the      *)
(* registry lists with a hash the tree does not hold under that name       *)
(* (missing or different), minus those whose registry hash is in the       *)
(* index of the content store.                                             *)
(***************************************************************************)
C3_ExportDownloadSet ==
    ExpPlanned =>
        LET R == expView.obs
            T == expView.git
            I == expView.index
            wanted == {f \in Names(R) :
                          /\ f \notin Names(T) \/ HashIn(T, f) # HashIn(R, f)
                          /\ HashIn(R, f) \notin I}
            scheduled == {f \in ExpNames : <<"download", f>> \in expPending}
        IN  /\ expView.download = wanted
            /\ expDownloaded \cup scheduled = wanted
            /\ ExpSynced => expDownloaded = wanted

C3_Witness ==
    /\ expPc = "storing"
    /\ expDownloaded # {}
    /\ \E e \in expView.obs \ expView.git :
           e[2] \in expView.index /\ e[1] \notin expDownloaded

ExpUnchanged == Names(expView.obs \cap expView.git)

\* Registry files whose hash the tree lacks under that name and the index holds:
\* neither downloaded nor deleted nor unchanged.
ExpInStore ==
    {e[1] : e \in {x \in expView.obs \ expView.git : x[2] \in expView.index}}

ExpAllNames == Names(expView.obs) \cup Names(expView.git)

(***************************************************************************)
(* C4 as stated: every filename of the registry or the tree FileSet is in  *)
(* exactly one of toDownload, toDelete and unchanged.                      *)
(***************************************************************************)
C4_PlanPartition ==
    ExpPlanned =>
        \A f \in ExpAllNames :
            Cardinality({k \in {"download", "delete", "unchanged"} :
                \/ k = "download" /\ f \in expView.download
                \/ k = "delete" /\ f \in expView.delete
                \/ k = "unchanged" /\ f \in ExpUnchanged}) = 1

(***************************************************************************)
(* C4 amended: toDownload, toDelete and unchanged are pairwise disjoint,   *)
(* and every filename of the registry or the tree FileSet is in exactly    *)
(* one of toDownload, toDelete, unchanged and the registry files whose     *)
(* hash differs from the tree's (or is missing there) but is in the index: *)
(* the three sets cover all filenames exactly when that fourth is empty.   *)
(***************************************************************************)
C4_PlanPartitionWithStore ==
    ExpPlanned =>
        /\ expView.download \cap expView.delete = {}
        /\ expView.download \cap ExpUnchanged = {}
        /\ expView.delete \cap ExpUnchanged = {}
        /\ \A f \in ExpAllNames :
               Cardinality({k \in {"download", "delete", "unchanged", "store"} :
                   \/ k = "download" /\ f \in expView.download
                   \/ k = "delete" /\ f \in expView.delete
                   \/ k = "unchanged" /\ f \in ExpUnchanged
                   \/ k = "store" /\ f \in ExpInStore}) = 1
        /\ expView.download \cup expView.delete \cup ExpUnchanged \cup ExpInStore
               = ExpAllNames
        /\ (expView.download \cup expView.delete \cup ExpUnchanged = ExpAllNames)
               <=> ExpInStore = {}

C4_Witness ==
    /\ expPc = "sync"
    /\ ExpInStore # {}
    /\ expView.download \cup expView.delete \cup ExpUnchanged # {}


(***************************************************************************)
(* C12: every export of a package, also one invoked for a single package,  *)
(* requests a commit after the package's files are stored, so that what    *)
(* the export uploaded to the content store is committed when the          *)
(* invocation ends: the store is in sync and lists every uploaded object.  *)
(***************************************************************************)
C12_ExportEndsCommitted ==
    expPc = "finished" =>
        /\ stSync
        /\ \A u \in stUploads : u.key \in stListing

(***************************************************************************)
(* C13: StorageOBS.commit sends one commitfilelist, listing exactly the    *)
(* hashes of the index, if the index has changed since the last commit (or *)
(* since construction), and sends nothing otherwise.  stListing is the     *)
(* index as of the last commit or construction.                            *)
(***************************************************************************)
C13_CommitIffIndexChanged ==
    [][(expPc = "exported" /\ expPc' = "finished" /\ expScope = "project") =>
          IF stIndex # stListing
          THEN stCommits' = Append(stCommits, stIndex)
          ELSE stCommits' = stCommits]_vars


(***************************************************************************)
(* C16: StorageOBS.transfer of a hash that is not in the index fails its   *)
(* assertion before any request is sent and leaves the index and the dirty *)
(* flag as they were; of a hash in the index, it copies the object of that *)
(* hash to the file of that name in the destination package.               *)
(***************************************************************************)
C16_TransferFailsFast ==
    /\ stIndex = stListing
    /\ stSync
    /\ \A w \in impWrites :
          w[1] = "transfer" =>
              \E e \in impView.transfer :
                  /\ e[1] = w[2]
                  /\ e[2] \in stIndex
                  /\ e \in impPool
    /\ impPc = "failed" =>
          \E op \in impPending :
              /\ op[1] = "transfer"
              /\ op[3] \notin stIndex
              /\ <<"transfer", op[2]>> \notin impWrites
              /\ <<op[2], op[3]>> \notin impPool \ impReg

\* One transfer has copied its object and another has failed its assertion.
C16_Witness ==
    /\ impPc = "failed"
    /\ \E w \in impWrites : w[1] = "transfer"

(***************************************************************************)
(* Claims about StorageOBS during an export (SpecExport).                  *)
(***************************************************************************)
\* C21: the index of a StorageOBS never loses a hash: from its construction
\* on, through store_files and commit, every hash in the index stays in it.
\* A step that raises expRun is the construction of a new StorageOBS.
C21_IndexMonotone ==
    [][expRun' = expRun => stIndex \subseteq stIndex']_vars

\* An export has put a hash into the index that the store did not list.
C21_Witness ==
    /\ expPc = "finished"
    /\ expRun = 1
    /\ stIndex # expOrigin.listing
    /\ expOrigin.listing # {}

\* C23: every hash in the index is one the store listed at construction or
\* one whose upload to the store has completed, also while uploads are in
\* flight.
C23_IndexedMeansStored ==
    expPc # "idle" =>
        \A h \in stIndex :
            \/ h \in stListing
            \/ \E u \in stUploads : u.key = h /\ u.run = expRun

\* C30: every object uploaded to the store under the key h has content whose
\* hash is h.
C30_StoredUnderOwnHash ==
    \A u \in stUploads : u.key = u.content

\* C25: the phases of an export are barriers.  No store upload starts before
\* every download and deletion of the package has completed; no file is
\* removed from the tree before every upload of the store_files call has
\* completed; the pointer manifest is written after every removal; the commit
\* is sent after the store phase.
C25_PhaseBarriers ==
    /\ (\E op \in expPending : op[1] \in {"store", "upload"}) => expPc = "storing"
    /\ (\E op \in expPending : op[1] = "unlink") => expPc = "removing"
    /\ (\E u \in stUploads : u.run = expRun) =>
           expPc \in {"storing", "removing", "exported", "finished"}
    /\ expPc \in {"storing", "removing", "exported"} =>
           /\ expDownloaded = expView.download
           /\ Names(expTree) \cap expView.delete = {}
           /\ \A op \in expPending : op[1] \notin {"download", "delete"}
    /\ expPc \in {"removing", "exported"} =>
           \A e \in expCall.exists :
               \E u \in stUploads : u.key = e[2] /\ u.run = expRun
    /\ expPc = "exported" =>
           /\ Names(expTree) \cap Names(expCall.exists) = {}
           /\ expPointer = expCall.files_md5
    /\ expPc \in {"start", "sync", "storing", "removing", "exported"} =>
           Len(stCommits) <= expRun - 1

\* One export has downloaded and stored one file, deleted another from the
\* tree and committed the store.
C25_Witness ==
    /\ expPc = "finished"
    /\ expRun = 1
    /\ Len(stCommits) = 1
    /\ \E u \in stUploads : u.run = 1
    /\ expView.download # {}
    /\ expView.delete # {}

\* C31: when Exporter.package has completed with no failed operation, the
\* tree and the pointer manifest stand for the registry's files exactly:
\* every (f, h) of the registry is either a plain file of the tree or an
\* entry of the pointer manifest whose hash is in the index, not both and
\* not neither; the tree holds no file the registry does not list; and no
\* plain file is left whose hash is in the index or that this export
\* downloaded and classified binary.
C31_ExportPostCondition ==
    expPc \in {"exported", "finished"} =>
        /\ \A e \in expReg :
               (e \in expTree) # (e \in expPointer /\ e[2] \in stIndex)
        /\ Names(expTree) \subseteq Names(expReg)
        /\ \A e \in expTree :
               /\ e[2] \notin stIndex
               /\ ~(e[1] \in expDownloaded /\ is_binary(e[1], expVerdict))

\* C31, amended: as C31, the last part being that no plain file is left
\* whose hash was in the index when store_files was called or that this
\* export downloaded and classified binary.
C31_ExportPostConditionAtCall ==
    expPc \in {"exported", "finished"} =>
        /\ \A e \in expReg :
               (e \in expTree) # (e \in expPointer /\ e[2] \in stIndex)
        /\ Names(expTree) \subseteq Names(expReg)
        /\ \A e \in expTree :
               /\ e[2] \notin stIndexAtCall
               /\ ~(e[1] \in expDownloaded /\ is_binary(e[1], expVerdict))

\* An export has completed that left a plain file in the tree and moved a
\* file of the tree whose hash the index held to the store.
C31_Witness ==
    /\ expPc = "finished"
    /\ expRun = 1
    /\ expTree # {}
    /\ \E e \in expPointer :
           /\ e[2] \in stIndexAtCall
           /\ e[1] \in Names(expOrigin.tree)

\* C33: an export that has completed and is run again in a new process,
\* against the same registry, downloads no file, deletes and removes no file
\* of the tree, uploads nothing to the store, sends no commit and leaves the
\* pointer manifest as it was.
C33_SecondExportDoesNothing ==
    [][expRun >= 2 =>
          /\ expDownloaded' = expDownloaded
          /\ expTree' = expTree
          /\ expPointer' = expPointer
          /\ stUploads' = stUploads
          /\ stCommits' = stCommits]_vars

(***************************************************************************)
(* Claims about app.export and app.import_ (SpecApp).                      *)
(***************************************************************************)
AppDenied == ~appIn.authorized \/ ~TargetPresent(appIn)

\* C17: an export or an import whose caller is not authorized for the target,
\* or whose target does not exist in the registry, aborts before it changes
\* the tree, the registry or the content store, and before it sends a write.
C17_AbortBeforeSideEffects ==
    (appPc # "idle" /\ AppDenied) =>
        /\ appMutated = {}
        /\ appSent = {}
        /\ appPc # "done"

(***************************************************************************)
(* Claims about Exporter.is_binary (SpecClassify).                         *)
(***************************************************************************)
ClsReturned == clsPc = "returned"

\* C19: the classifier decides in this order: a suffix of BINARY is binary;
\* the suffix .obscpio is binary; a suffix of NON_BINARY is text; a size
\* below the threshold is text; a first 4 KiB window that decodes as UTF-8 is
\* text; anything else is binary unless the detection confidence reaches the
\* threshold.  An extension rule overrides size and content, and the file is
\* opened only when neither an extension rule nor the size rule applies.
C19_DecisionOrder ==
    ClsReturned =>
        LET suffix == Suffix(clsFile.name)
            byExtension == suffix \in BINARY \cup NON_BINARY_EXCEPTIONS \cup NON_BINARY
            small == clsFile.size < 5 * 1024
        IN  /\ suffix \in BINARY => clsOut.binary
            /\ suffix \in NON_BINARY_EXCEPTIONS => clsOut.binary
            /\ suffix \in NON_BINARY => ~clsOut.binary
            /\ ~byExtension /\ small => ~clsOut.binary
            /\ ~byExtension /\ ~small /\ clsFile.head => ~clsOut.binary
            /\ ~byExtension /\ ~small /\ ~clsFile.head =>
                   (clsOut.binary <=> ~(clsFile.confidence >= 80))
            /\ clsOut.read <=> (~byExtension /\ ~small)

\* A large .spec file whose content does not decode and is detected with no
\* confidence came out text without having been opened.
C19_Witness ==
    /\ ClsReturned
    /\ clsFile.name = "a.spec" /\ clsFile.size = 2 * SizeThreshold
    /\ ~clsFile.head /\ clsFile.confidence = 0
    /\ ~clsOut.binary /\ ~clsOut.read

\* C20: for a file no extension rule decides, a size strictly below 5 * 1024
\* bytes is text whatever the content; at exactly 5 * 1024 bytes the size rule
\* does not apply; from 5 * 1024 bytes on, with a first window that does not
\* decode, the file is binary exactly when the confidence is below 80 percent.
C20_Thresholds ==
    (ClsReturned /\ ~HasExtensionRule(clsFile.name)) =>
        /\ clsFile.size < 5120 => ~clsOut.binary
        /\ clsFile.size >= 5120 /\ ~clsFile.head =>
               (clsOut.binary <=> clsFile.confidence < 80)
        /\ clsFile.size = 5120 => clsOut.read

\* A file of exactly 5 * 1024 bytes that does not decode was opened and, at
\* confidence 80, came out text.
C20_Witness ==
    /\ ClsReturned
    /\ clsFile.name = "README" /\ clsFile.size = 5120 /\ ~clsFile.head
    /\ clsFile.confidence = 80 /\ ~clsOut.binary /\ clsOut.read

(***************************************************************************)
(* Claims about Exporter.package of a linked package (SpecExportLink).     *)
(***************************************************************************)
LnkViolates ==
    HasLink(lnkPkg) /\ CrossesProject(lnkPkg, OwnProject) /\ lnkPolicy = "never"

\* C15: when the link of a package leaves the project and the policy is
\* 'never', the export of the package is aborted: none of its files in the
\* tree is downloaded, deleted or moved to the store, and its pointer
\* manifest stays as it was.
C15_LinkViolationLeavesPackage ==
    (expPc # "idle" /\ LnkViolates) =>
        /\ expTree = expOrigin.tree
        /\ expPointer = None
        /\ expDownloaded = {}
        /\ stUploads = {}

(***************************************************************************)
(* Claims about a disturbed Exporter.package (SpecExportFault).            *)
(***************************************************************************)
\* C14: a download or a deletion of one file that fails is isolated: the other
\* downloads and deletions of the package complete, the package goes on to
\* its store phase, and the commit of the project is still issued.  So the
\* export never ends where an awaitable raised.
C14_FileFailureIsolated ==
    "failed" \in expFaults =>
        /\ expPc # "raised"
        /\ (expPc = "finished" /\ expScope = "project") => stSync

\* C18: an export that is stopped at any point and then run again from
\* scratch to completion, against the same registry, leaves the tree, the
\* pointer manifest and the content store as one undisturbed export does.
C18_RerunAfterInterruption ==
    (expPc = "finished" /\ expFaults = {"interrupted"}) =>
        ExportState = ExportResult(expScope, expReg, expOrigin.tree,
                                   expOrigin.listing, expVerdict)

(***************************************************************************)
(* Claims about Exporter.project (SpecProject).                            *)
(***************************************************************************)
PrjPlanned == prjPc \in {"gather", "done"}

C24_IndexWrittenByCoordinator ==
    [][stIndex' # stIndex =>
          \A op \in prjPending' : op[1] \notin {"package", "store"}]_vars

\* C32: during one project export each hash is uploaded to the store at
\* most once, whatever the interleaving of the package exports: two packages
\* that hold a new file with the same hash do not both upload it.
C32_UploadedAtMostOnce ==
    \A u \in prjUploads : \A v \in prjUploads : u[2] = v[2] => u = v

(***************************************************************************)
(* Claims about the pointer manifest (SpecManifest).                        *)
(***************************************************************************)
\* C29: the manifest store_files writes has one line per (filename, hash)
\* pair, and reading it the way Importer.package does gives back exactly the
\* pairs written, whatever the filenames, also a filename that holds a space;
\* a later store_files call replaces the manifest.
C29_ManifestRoundTrip ==
    /\ mfPc \in {"written", "parsed"} =>
           Len(readlines(mfText)) = Cardinality(mfFiles)
    /\ mfPc = "parsed" /\ mfRun > 0 => mfParsed = mfFiles

(***************************************************************************)
(* Claims about StorageLFS (SpecLFS).                                       *)
(***************************************************************************)
\* C28: a store_files call that repeats the call before it, the same files
\* of the same package, runs no track command and leaves the set of tracked
\* patterns as it was.
C28_SecondStoreTracksNothing ==
    lfsCalls >= 2 /\ lfsCall = lfsPrev =>
        /\ lfsIssued = <<>>
        /\ lfsTracked = lfsBefore

(***************************************************************************)
(* Claims about Git.analyze_history (SpecHistory).                          *)
(***************************************************************************)
\* The oids of the commits with one parent or none that touch the package.
HistTouching(package) ==
    {histWalk[i].oid : i \in {j \in 1..Len(histWalk) :
        /\ histWalk[j].parents \in {0, 1}
        /\ package \in histWalk[j].touched}}

HistAsked ==
    /\ histPc = "returned"
    /\ histOut.package \in histTree
    /\ HistTouching(histOut.package) # {}

C26_LinksImportedLast ==
    /\ \A l \in ipStarted \cap ipLinks :
           \A p \in ipGit \ ipLinks : <<"package", p>> \in ipDone
    /\ \A p \in IpPackages \cup {IpGone} :
           <<"delete", p>> \in ipDone =>
               \A q \in ipGit : <<"package", q>> \in ipDone

(***************************************************************************)
(* Claims about Importer.package (SpecImport).                             *)
(***************************************************************************)
ImpPlanned == impPc \in {"gather", "done", "failed"}

ImpAllOps ==
    {<<"upload", e[1], e[2]>> : e \in impView.upload}
        \cup {<<"transfer", e[1], e[2]>> : e \in impView.transfer}
        \cup {<<"delete", f, NoMd5>> : f \in impView.delete}

ImpPlanNonEmpty ==
    impView.upload # {} \/ impView.transfer # {} \/ impView.delete # {}

\* C22: the sets of one plan are pairwise disjoint by filename: no filename is
\* in two of the upload, transfer and delete sets of an import.
C22_PlanSetsDisjoint ==
    ImpPlanned =>
        LET up  == {e[1] : e \in impView.upload}
            tr  == {e[1] : e \in impView.transfer}
            del == impView.delete
        IN  /\ up \cap tr = {}
            /\ up \cap del = {}
            /\ tr \cap del = {}

(***************************************************************************)
(* C1: when Importer.package has run to completion and runs again on the   *)
(* same tree, pointer manifest and history, against the registry as the    *)
(* first run left it, the second run sends the registry no write: no       *)
(* upload, no transfer, no delete, no commitfilelist.                      *)
(***************************************************************************)
C1_SecondImportWritesNothing == impRun >= 2 => impWrites = {}

C6_ManifestIsMapping ==
    impCommits = 1 =>
        LET directory == impManifest.directory
        IN  /\ \A e \in impView.git : e \in directory
            /\ \A f \in Names(impPtr) : f \in Names(directory)
            /\ \A a, b \in directory : a[1] = b[1] => a = b

(***************************************************************************)
(* C8: for every file Importer.package uploads, the hash recorded for it   *)
(* (compared with the registry and written to the directory) is the hash   *)
(* of the bytes uploaded: the stamped hash is recorded if and only if the  *)
(* stamped content is uploaded.                                            *)
(***************************************************************************)
C8_RecordedHashIsUploadedHash ==
    ImpPlanned => \A u \in impUploaded : u \in impView.git

=============================================================================
